---- MODULE Spec2Model ----
(***************************************************************************)
(* Model of opencode-agenda-plugin: the append-only event store and its    *)
(* materialized view, the trigger matcher, the idempotent task queue, the  *)
(* breadth-first drain loop, the action executor, the tool surface and the *)
(* poll timer.                                                             *)
(*                                                                         *)
(* JavaScript runs one synchronous segment at a time; handlers interleave  *)
(* only at an await.  Every action below is one synchronous segment: the   *)
(* code between two awaits of one handler.  An `await store.append(r)` is  *)
(* an invocation (the record is in flight), a landing (AppendLand /        *)
(* CallLand: the record reaches the log and the view) and a resumption of  *)
(* the awaiting handler.  `await toast(...)` changes no state and is       *)
(* merged with the await that precedes it.                                 *)
(***************************************************************************)
EXTENDS Integers, Sequences, FiniteSets, TLC

\* ------------------------------------------------------------------------
\* Program constants
\* ------------------------------------------------------------------------
POLL_INTERVAL_MS == 5000
maxPendingPerSession == 10
maxPendingProject == 30
minIntervalSeconds == 60
maxPendingPerEventKind == 5
maxBusEmitsPerSessionPerHour == 30
maxCascadeDepth == 8

\* ------------------------------------------------------------------------
\* Bounds of the general specification
\* ------------------------------------------------------------------------
\* Poll intervals of wall-clock time that may elapse after startup.
MaxPolls == 2
\* Entries that may ever be created (ids are 1..MaxIds).
MaxIds == 2
\* Tick bodies that may be in progress at once.
NumTicks == 2
\* Tool calls that may be awaiting their append/write at once.
NumCalls == 1
\* Tool calls made in one run.
MaxOps == 3
\* Poll intervals by which a record's timestamp may lag its append() call.
MaxStampLag == 0

StartClock == POLL_INTERVAL_MS

\* ------------------------------------------------------------------------
\* Data: triggers, actions, log records
\* ------------------------------------------------------------------------
Undefined == "undefined"
NoTime == -1

TimeTrigger(at) ==
  [type |-> "time", executeAt |-> at, eventKind |-> <<>>,
   matchMode |-> Undefined, expiresAt |-> NoTime]
EventTrigger(kinds, mode, exp) ==
  [type |-> "event", executeAt |-> NoTime, eventKind |-> kinds,
   matchMode |-> mode, expiresAt |-> exp]

CommandAction(session) == [type |-> "command", sessionId |-> session]
EmitAction(k) == [type |-> "emit", kind |-> k]
CancelAction(id) == [type |-> "cancel", scheduleId |-> id]
ScheduleAction(a, t) == [type |-> "schedule", action |-> a, trigger |-> t]

NoRec == [type |-> "none"]
CreatedRec(id, t, a, ts) ==
  [type |-> "agenda.created", agendaId |-> id, trigger |-> t, action |-> a,
   timestamp |-> ts]
CancelledRec(id) == [type |-> "agenda.cancelled", agendaId |-> id]
ExecutedRec(id, by) ==
  [type |-> "agenda.executed", agendaId |-> id, triggeredByEvent |-> by]
FailedRec(id, by, message) ==
  [type |-> "agenda.failed", agendaId |-> id, triggeredByEvent |-> by,
   error |-> message]
ExpiredRec(id) == [type |-> "agenda.expired", agendaId |-> id]
BusRec(k, session, ts) ==
  [type |-> "bus.emitted", kind |-> k, sessionId |-> session, timestamp |-> ts]
\* persistPauseState's write to config.json
ConfigRec(b) == [type |-> "config", paused |-> b]
\* A line of events.jsonl that JSON.parse rejects.
BadLine == [type |-> "malformed"]

TerminalTypes ==
  {"agenda.cancelled", "agenda.executed", "agenda.failed", "agenda.expired"}

VARIABLES
  clock,             \* Date.now(), ms
  nextFire,          \* when the setInterval timer fires next
  log,               \* events.jsonl: the records appended, in file order
  agendaMap,         \* materialized entries, in insertion order
  busLog,            \* materialized bus events, in log order
  queue,             \* Map<agendaId, triggeredByEvent>, in insertion order
  lastBusTimestamp,  \* cursor of the tick's new-bus-event scan
  paused,            \* safetyConfig.paused
  configFile,        \* config.json: "absent", or the text written to it
  nextId,            \* ids generateId("agn") has handed out so far
  ticks,             \* the tick bodies in progress
  calls,             \* tool calls awaiting their append/write
  opsLeft,           \* tool calls the run may still make
  enq,               \* history: enqueue() calls per entry id before its first execution
  execs,             \* history: executeAction() calls per entry id
  ticksDone,         \* history: unpaused tick bodies that ran to completion
  probe,             \* the last direct call of the matcher: its kind and result
  reply              \* the last tool call: its request and what the validator said

vars ==
  <<clock, nextFire, log, agendaMap, busLog, queue, lastBusTimestamp, paused,
    configFile, nextId, ticks, calls, opsLeft, enq, execs, ticksDone, probe, reply>>

\* ------------------------------------------------------------------------
\* Sequence helpers
\* ------------------------------------------------------------------------
RECURSIVE SeqToSet(_)
SeqToSet(s) == IF s = <<>> THEN {} ELSE {Head(s)} \cup SeqToSet(Tail(s))

Includes(s, x) == \E i \in 1..Len(s) : s[i] = x

Bump(f, id) == IF id \in DOMAIN f /\ f[id] < 2 THEN [f EXCEPT ![id] = @ + 1] ELSE f

Ticks == DOMAIN ticks
Ids == DOMAIN execs

\* ------------------------------------------------------------------------
\* Event store: the reducer and the read side
\* ------------------------------------------------------------------------
IndexOf(map, id) ==
  IF \E i \in 1..Len(map) : map[i].agendaId = id
  THEN CHOOSE i \in 1..Len(map) : map[i].agendaId = id
  ELSE 0

Known(map, id) == IndexOf(map, id) # 0
StatusOf(map, id) ==
  IF Known(map, id) THEN map[IndexOf(map, id)].status ELSE Undefined
IsPending(map, id) == StatusOf(map, id) = "pending"

SetStatus(map, id, st) ==
  IF Known(map, id) THEN [map EXCEPT ![IndexOf(map, id)].status = st] ELSE map

\* The reducer stamping an entry with the time of the replay instead of the
\* record's own timestamp.
NewEntryStampedNow(rec) ==
  [agendaId |-> rec.agendaId, trigger |-> rec.trigger, action |-> rec.action,
   status |-> "pending", createdAt |-> clock]

NewEntry(rec) ==
  [agendaId |-> rec.agendaId, trigger |-> rec.trigger, action |-> rec.action,
   status |-> "pending", createdAt |-> rec.timestamp]

\* One step of the left fold over the log.
materialize(map, rec) ==
  CASE rec.type = "agenda.created" ->
         IF Known(map, rec.agendaId)
         THEN [map EXCEPT ![IndexOf(map, rec.agendaId)] = NewEntry(rec)]
         ELSE Append(map, NewEntry(rec))
    [] rec.type = "agenda.cancelled" -> SetStatus(map, rec.agendaId, "cancelled")
    [] rec.type = "agenda.executed" -> SetStatus(map, rec.agendaId, "executed")
    [] rec.type = "agenda.failed" -> SetStatus(map, rec.agendaId, "failed")
    [] rec.type = "agenda.expired" -> SetStatus(map, rec.agendaId, "expired")
    [] OTHER -> map

busEvents(bus, rec) ==
  IF rec.type = "bus.emitted"
  THEN Append(bus, [kind |-> rec.kind, sessionId |-> rec.sessionId,
                    timestamp |-> rec.timestamp])
  ELSE bus

pending(map) ==
  LET isPending(e) == e.status = "pending" IN SelectSeq(map, isPending)

pendingByType(map, byType) ==
  LET ofType(e) == e.trigger.type = byType IN SelectSeq(pending(map), ofType)

\* The trigger's kinds are kept as an array; a single kind is a one-element array.
normalizeKinds(trigger) == trigger.eventKind

matchMode(trigger) ==
  IF trigger.matchMode = Undefined THEN "any" ELSE trigger.matchMode

\* allSatisfied with a strict comparison of the timestamps.
allSatisfiedStrict(entry, bus) ==
  \A i \in 1..Len(normalizeKinds(entry.trigger)) :
    \E j \in 1..Len(bus) :
      /\ bus[j].kind = normalizeKinds(entry.trigger)[i]
      /\ bus[j].timestamp > entry.createdAt

allSatisfied(entry, bus) ==
  \A i \in 1..Len(normalizeKinds(entry.trigger)) :
    \E j \in 1..Len(bus) :
      /\ bus[j].kind = normalizeKinds(entry.trigger)[i]
      /\ bus[j].timestamp >= entry.createdAt

matches(entry, bus, newKind) ==
  IF matchMode(entry.trigger) = "any"
  THEN Includes(normalizeKinds(entry.trigger), newKind)
  ELSE /\ Includes(normalizeKinds(entry.trigger), newKind)
       /\ allSatisfied(entry, bus)

\* The matcher over the event entries of any status.
matchingEntriesAnyStatus(map, bus, newKind) ==
  LET hit(e) == e.trigger.type = "event" /\ matches(e, bus, newKind) IN
  SelectSeq(map, hit)

matchingEntries(map, bus, newKind) ==
  LET hit(e) == matches(e, bus, newKind) IN
  SelectSeq(pendingByType(map, "event"), hit)

\* ------------------------------------------------------------------------
\* Safety validator
\* ------------------------------------------------------------------------
pauseViolation(isPaused) == isPaused

Count(s, Test(_)) == Len(SelectSeq(s, Test))

Abs(x) == IF x < 0 THEN -x ELSE x
Min(x, y) == IF x < y THEN x ELSE y

RECURSIVE kindCapViolated(_, _)
kindCapViolated(p, kinds) ==
  IF kinds = <<>> THEN FALSE
  ELSE LET listens(e) == e.trigger.type = "event"
                         /\ Includes(e.trigger.eventKind, Head(kinds)) IN
       \/ Count(p, listens) >= maxPendingPerEventKind
       \/ kindCapViolated(p, Tail(kinds))

\* validateCreate with the per-session cap tested before the project cap.
validateCreateSessionFirst(map, action, trigger) ==
  LET p == pending(map)
      sameSession(e) == e.action.type = "command"
                        /\ e.action.sessionId = action.sessionId
      tooClose(e) == e.trigger.type = "time"
                     /\ Abs(e.trigger.executeAt - trigger.executeAt)
                          < minIntervalSeconds * 1000
  IN
  IF action.type = "command" /\ Count(p, sameSession) >= maxPendingPerSession
  THEN "max_pending_session"
  ELSE IF Len(p) >= maxPendingProject THEN "max_pending_project"
  ELSE IF trigger.type = "time" /\ Count(p, tooClose) > 0 THEN "min_interval"
  ELSE IF trigger.type = "event" /\ kindCapViolated(p, trigger.eventKind)
       THEN "max_pending_event_kind"
  ELSE "ok"

\* The rule of the first violation, or "ok".
validateCreate(map, action, trigger) ==
  LET p == pending(map)
      sameSession(e) == e.action.type = "command"
                        /\ e.action.sessionId = action.sessionId
      tooClose(e) == e.trigger.type = "time"
                     /\ Abs(e.trigger.executeAt - trigger.executeAt)
                          < minIntervalSeconds * 1000
  IN
  IF Len(p) >= maxPendingProject THEN "max_pending_project"
  ELSE IF action.type = "command" /\ Count(p, sameSession) >= maxPendingPerSession
       THEN "max_pending_session"
  ELSE IF trigger.type = "time" /\ Count(p, tooClose) > 0 THEN "min_interval"
  ELSE IF trigger.type = "event" /\ kindCapViolated(p, trigger.eventKind)
       THEN "max_pending_event_kind"
  ELSE "ok"

validateBusEmit(bus, sessionId, now) ==
  LET recent(b) == b.sessionId = sessionId /\ b.timestamp > now - 60 * 60 * 1000 IN
  IF Count(bus, recent) >= maxBusEmitsPerSessionPerHour THEN "max_bus_emits" ELSE "ok"

\* ------------------------------------------------------------------------
\* Idempotent task queue
\* ------------------------------------------------------------------------
NoProbe == [kind |-> Undefined, result |-> <<>>]

NoItem == [agendaId |-> 0, triggeredByEvent |-> Undefined]
Item(id, by) == [agendaId |-> id, triggeredByEvent |-> by]

Queued(q, id) == \E i \in 1..Len(q) : q[i].agendaId = id

enqueue(q, agendaId, triggeredByEvent) ==
  IF Queued(q, agendaId) THEN q ELSE Append(q, Item(agendaId, triggeredByEvent))

RECURSIVE enqueueAll(_, _)
enqueueAll(q, items) ==
  IF items = <<>> THEN q
  ELSE enqueueAll(enqueue(q, Head(items).agendaId, Head(items).triggeredByEvent),
                  Tail(items))

\* enqueueMatchingEntries calling enqueue(entry.agendaId) without the kind.
matchingCallsNoKind(map, bus, kind) ==
  LET m == matchingEntries(map, bus, kind) IN
  [i \in 1..Len(m) |-> Item(m[i].agendaId, Undefined)]

\* The enqueue() calls enqueueMatchingEntries(kind) makes, in order.
matchingCalls(map, bus, kind) ==
  LET m == matchingEntries(map, bus, kind) IN
  [i \in 1..Len(m) |-> Item(m[i].agendaId, kind)]

enqueueMatchingEntries(q, map, bus, kind) ==
  enqueueAll(q, matchingCalls(map, bus, kind))

\* History: the ids that the enqueue() calls items add to the queue q.
Added(q, items) ==
  {items[i].agendaId : i \in 1..Len(items)} \ {q[i].agendaId : i \in 1..Len(q)}

\* History: the enqueue() calls for entries whose execution has not begun.
RECURSIVE BumpAll(_, _)
BumpAll(f, items) ==
  IF items = <<>> THEN f
  ELSE BumpAll(IF execs[Head(items).agendaId] = 0 THEN Bump(f, Head(items).agendaId) ELSE f,
               Tail(items))

\* ------------------------------------------------------------------------
\* Drain loop: the synchronous search for the next entry to execute
\* ------------------------------------------------------------------------
\* drainBatch is the for-loop over the batch from its current position;
\* drainLoop is the while-test.  Both return the next item to execute (or
\* NoItem when drain returns) with the batch, queue and depth at that point.
RECURSIVE drainBatch(_, _, _, _)
RECURSIVE drainLoop(_, _, _)
RECURSIVE drainBatchSameWave(_, _, _, _)
\* drainBatch without the depth++ between waves: what a batch enqueued is
\* run as part of the same wave.
drainBatchSameWave(map, batch, q, depth) ==
  IF batch # <<>>
  THEN IF IsPending(map, Head(batch).agendaId)
       THEN [cur |-> Head(batch), batch |-> Tail(batch), queue |-> q, depth |-> depth]
       ELSE drainBatchSameWave(map, Tail(batch), q, depth)
  ELSE drainLoop(map, q, depth)

\* drainBatch without the guard on the entry's status.
drainBatchUnguarded(map, batch, q, depth) ==
  IF batch # <<>>
  THEN [cur |-> Head(batch), batch |-> Tail(batch), queue |-> q, depth |-> depth]
  ELSE drainLoop(map, q, depth + 1)

drainBatch(map, batch, q, depth) ==
  IF batch # <<>>
  THEN IF IsPending(map, Head(batch).agendaId)
       THEN [cur |-> Head(batch), batch |-> Tail(batch), queue |-> q, depth |-> depth]
       ELSE drainBatch(map, Tail(batch), q, depth)
  ELSE drainLoop(map, q, depth + 1)

\* drain without the depth cap: it goes on until the queue is empty.
drainLoopUncapped(map, q, depth) ==
  IF Len(q) > 0
  THEN drainBatch(map, q, <<>>, depth)
  ELSE [cur |-> NoItem, batch |-> <<>>, queue |-> q, depth |-> depth]

\* drain with a depth cap of 0: the while-test fails before the first wave.
drainLoopCapZero(map, q, depth) ==
  [cur |-> NoItem, batch |-> <<>>, queue |-> q, depth |-> depth]

drainLoop(map, q, depth) ==
  IF Len(q) > 0 /\ depth < maxCascadeDepth
  THEN drainBatch(map, q, <<>>, depth)
  ELSE [cur |-> NoItem, batch |-> <<>>, queue |-> q, depth |-> depth]

\* ------------------------------------------------------------------------
\* Tick bodies
\* ------------------------------------------------------------------------
\* pc: where the body awaits; now: its Date.now(); expire: the rest of the
\* expiry loop's list; batch, depth, cur: drain's locals; pend: the record
\* whose append is awaited.  History: expired0, due0, matched0, queued0 are
\* what the body found at its start, made the ids its schedule actions
\* created with the wave (depth) that created them, fresh the ids the body
\* put into the queue while its current wave runs (ids the wave's batch
\* holds anyway left out).
IdleTick ==
  [pc |-> "idle", now |-> NoTime, expire |-> <<>>, expired0 |-> {},
   due0 |-> {}, matched0 |-> {}, queued0 |-> {}, made |-> {}, fresh |-> {},
   batch |-> <<>>,
   depth |-> 0, cur |-> NoItem, pend |-> NoRec]

EntryOf(map, id) == map[IndexOf(map, id)]

\* executeAction whose cancel case appends the cancelled record without
\* looking at the target.
executeActionCancelUnchecked(map, item, now) ==
  LET e == EntryOf(map, item.agendaId)
      a == e.action
      by == item.triggeredByEvent
  IN
  CASE a.type = "command" -> [pc |-> "command", pend |-> NoRec]
    [] a.type = "emit" ->
         [pc |-> "emit_bus", pend |-> BusRec(a.kind, "agenda", now)]
    [] a.type = "cancel" ->
         [pc |-> "cancel_target", pend |-> CancelledRec(a.scheduleId)]
    [] a.type = "schedule" ->
         [pc |-> "schedule_created",
          pend |-> CreatedRec(nextId + 1, a.trigger, a.action, now)]

\* executeAction up to its first await: the pc it waits at and the record
\* whose append it awaits.
executeAction(map, item, now) ==
  LET e == EntryOf(map, item.agendaId)
      a == e.action
      by == item.triggeredByEvent
  IN
  CASE a.type = "command" -> [pc |-> "command", pend |-> NoRec]
    [] a.type = "emit" ->
         [pc |-> "emit_bus", pend |-> BusRec(a.kind, "agenda", now)]
    [] a.type = "cancel" ->
         IF IsPending(map, a.scheduleId)
         THEN [pc |-> "cancel_target", pend |-> CancelledRec(a.scheduleId)]
         ELSE [pc |-> "done", pend |-> ExecutedRec(e.agendaId, by)]
    [] a.type = "schedule" ->
         [pc |-> "schedule_created",
          pend |-> CreatedRec(nextId + 1, a.trigger, a.action, now)]

Done(n) == IF n < 2 THEN n + 1 ELSE n

\* A tick body that has returned; the history of what it found at its start
\* stays until the next tick body starts.
Returned(tk) ==
  [IdleTick EXCEPT !.expired0 = tk.expired0, !.due0 = tk.due0,
                   !.matched0 = tk.matched0, !.queued0 = tk.queued0]

\* drain from the point r, in the tick body tk: start the next action, or
\* return from the tick.
Proceed(t, tk, r) ==
  /\ queue' = r.queue
  /\ IF r.cur = NoItem
     THEN /\ ticks' = [ticks EXCEPT ![t] = Returned(tk)]
          /\ ticksDone' = Done(ticksDone)
          /\ UNCHANGED <<nextId, execs>>
     ELSE LET x == executeAction(agendaMap, r.cur, clock)
              isSchedule == EntryOf(agendaMap, r.cur.agendaId).action.type = "schedule"
          IN
          /\ isSchedule => nextId + 1 \in Ids
          /\ ticks' = [ticks EXCEPT ![t] =
               [tk EXCEPT !.pc = x.pc, !.pend = x.pend, !.cur = r.cur,
                          !.batch = r.batch, !.depth = r.depth, !.expire = <<>>,
                          !.made = IF isSchedule
                                   THEN @ \cup {[id |-> nextId + 1, depth |-> r.depth]}
                                   ELSE @,
                          !.fresh = IF r.depth # tk.depth THEN {} ELSE @]]
          /\ nextId' = IF isSchedule THEN nextId + 1 ELSE nextId
          /\ execs' = Bump(execs, r.cur.agendaId)
          /\ UNCHANGED ticksDone

\* Phase 2 without the executeAt test.
dueCallsAll(map, now) ==
  LET d == pendingByType(map, "time")
  IN [i \in 1..Len(d) |-> Item(d[i].agendaId, Undefined)]

\* Phase 2 of tick: the enqueue() calls for the ready time triggers.
dueCalls(map, now) ==
  LET due(e) == e.trigger.executeAt <= now
      d == SelectSeq(pendingByType(map, "time"), due)
  IN [i \in 1..Len(d) |-> Item(d[i].agendaId, Undefined)]

\* Phase 3 of tick: the bus events newer than the cursor, and the enqueue()
\* calls for the entries they match.
newEvents(bus, last) ==
  LET isNew(b) == b.timestamp > last IN SelectSeq(bus, isNew)

RECURSIVE busCalls(_, _, _)
busCalls(map, bus, evts) ==
  IF evts = <<>> THEN <<>>
  ELSE matchingCalls(map, bus, Head(evts).kind) \o busCalls(map, bus, Tail(evts))

\* Phases 2, 3 and the start of phase 4 (drain) run without an await.
EnqueueAndDrain(t, tk) ==
  LET evts == newEvents(busLog, lastBusTimestamp)
      items == dueCalls(agendaMap, tk.now) \o busCalls(agendaMap, busLog, evts)
      tk2 == [tk EXCEPT !.due0 = {it.agendaId : it \in SeqToSet(dueCalls(agendaMap, tk.now))}]
  IN
  /\ lastBusTimestamp' =
       IF Len(evts) > 0 THEN evts[Len(evts)].timestamp ELSE lastBusTimestamp
  /\ enq' = BumpAll(enq, items)
  /\ Proceed(t, tk2, drainLoop(agendaMap, enqueueAll(queue, items), 0))

\* Phase 1 of tick: the pending event entries whose expiresAt has passed.
expiredNow(map, now) ==
  LET stale(e) == e.trigger.expiresAt # NoTime /\ e.trigger.expiresAt <= now
      s == SelectSeq(pendingByType(map, "event"), stale)
  IN [i \in 1..Len(s) |-> s[i].agendaId]

\* History: the pending event entries that some bus event of the log, stamped
\* at or after the entry's creation, matches.
Matched(map, bus) ==
  {e.agendaId : e \in
     {x \in SeqToSet(pendingByType(map, "event")) :
        \E j \in 1..Len(bus) : /\ bus[j].timestamp >= x.createdAt
                               /\ matches(x, bus, bus[j].kind)}}

\* setInterval fires tick(): a new tick body starts, whether or not an
\* earlier one is still awaiting something.
tick(t) ==
  /\ UNCHANGED <<probe, reply>>
  /\ ticks[t].pc = "idle"
  /\ \A u \in Ticks : u < t => ticks[u].pc # "idle"
  /\ clock >= nextFire
  /\ nextFire' = clock + POLL_INTERVAL_MS
  /\ UNCHANGED <<clock, log, agendaMap, busLog, paused, configFile, calls, opsLeft>>
  /\ IF pauseViolation(paused)
     THEN UNCHANGED <<queue, lastBusTimestamp, nextId, ticks, enq, execs, ticksDone>>
     ELSE LET ex == expiredNow(agendaMap, clock)
              tk == [IdleTick EXCEPT !.now = clock, !.expired0 = SeqToSet(ex),
                                     !.matched0 = Matched(agendaMap, busLog),
                                     !.queued0 = {queue[i].agendaId : i \in 1..Len(queue)}]
          IN
          IF ex # <<>>
          THEN /\ ticks' = [ticks EXCEPT ![t] =
                   [tk EXCEPT !.pc = "expire", !.expire = Tail(ex),
                              !.pend = ExpiredRec(Head(ex))]]
               /\ UNCHANGED <<queue, lastBusTimestamp, nextId, enq, execs, ticksDone>>
          ELSE EnqueueAndDrain(t, tk)

\* The record a tick body awaits reaches the log and the materialized view.
\* append takes the timestamp after `await this.init()`: at the invocation or
\* up to MaxStampLag poll intervals later, and not after the landing.
Stamps(from) ==
  {from + k * POLL_INTERVAL_MS :
     k \in 0..Min(MaxStampLag, (clock - from) \div POLL_INTERVAL_MS)}

Stamped(rec) ==
  IF rec.type \in {"agenda.created", "bus.emitted"}
  THEN {[rec EXCEPT !.timestamp = ts] : ts \in Stamps(rec.timestamp)}
  ELSE {rec}

\* An append whose line never reaches the file.
persistDropped(rec) == UNCHANGED log

\* appendFile: one more line at the end of events.jsonl.
persist(rec) == log' = Append(log, rec)

\* The stored record is applied to the in-memory view, in the same turn in
\* which the write resolved.
applyToCache(rec) ==
  /\ agendaMap' = materialize(agendaMap, rec)
  /\ busLog' = busEvents(busLog, rec)

append(rec) ==
  /\ persist(rec)
  /\ applyToCache(rec)

AppendLand(t) ==
  /\ UNCHANGED <<probe, reply>>
  /\ ticks[t].pend # NoRec
  /\ \E rec \in Stamped(ticks[t].pend) : append(rec)
  /\ ticks' = [ticks EXCEPT ![t].pend = NoRec]
  /\ UNCHANGED <<clock, nextFire, queue, lastBusTimestamp, paused, configFile,
                 nextId, calls, opsLeft, enq, execs, ticksDone>>

\* await toast(...): client.tui.showToast resolves or throws, and toast's own
\* try/catch swallows the throw; the caller goes on either way.
toastUncaught(delivered) == delivered

toast(delivered) == TRUE

\* The expiry loop resumes after an expired record was appended and its
\* notification was delivered or not.
ExpireResumed(t, delivered) ==
  /\ UNCHANGED <<probe, reply>>
  /\ ticks[t].pc = "expire"
  /\ ticks[t].pend = NoRec
  /\ toast(delivered)
  /\ UNCHANGED <<clock, nextFire, log, agendaMap, busLog, paused, configFile,
                 calls, opsLeft>>
  /\ IF ticks[t].expire # <<>>
     THEN /\ ticks' = [ticks EXCEPT ![t].expire = Tail(@),
                                    ![t].pend = ExpiredRec(Head(ticks[t].expire))]
          /\ UNCHANGED <<queue, lastBusTimestamp, nextId, enq, execs, ticksDone>>
     ELSE EnqueueAndDrain(t, ticks[t])

ExpireNext(t) == \E delivered \in BOOLEAN : ExpireResumed(t, delivered)

\* What client.session.command (or session.create for "new") does: it
\* returns, or throws an error with a message.
Success == "success"
CommandOutcomes == {Success, "session not found"}

\* executeAction with the try/catch around the whole wave instead of the
\* single action: a throw is recorded and ends the wave.
CommandReturnAborting(t, res) ==
  /\ UNCHANGED <<probe, reply>>
  /\ ticks[t].pc = "command"
  /\ ticks[t].pend = NoRec
  /\ ticks' = [ticks EXCEPT ![t].pc = "done",
       ![t].batch = IF res = Success THEN @ ELSE <<>>,
       ![t].pend = IF res = Success
                   THEN ExecutedRec(ticks[t].cur.agendaId, ticks[t].cur.triggeredByEvent)
                   ELSE FailedRec(ticks[t].cur.agendaId, ticks[t].cur.triggeredByEvent, res)]
  /\ UNCHANGED <<clock, nextFire, log, agendaMap, busLog, queue, lastBusTimestamp,
                 paused, configFile, nextId, calls, opsLeft, enq, execs, ticksDone>>

\* executeAction without the try/catch: a throw leaves drain and tick.
CommandReturnThrowing(t, res) ==
  /\ UNCHANGED <<probe, reply>>
  /\ ticks[t].pc = "command"
  /\ ticks[t].pend = NoRec
  /\ ticks' = [ticks EXCEPT
       ![t].pc = IF res = Success THEN "done" ELSE "threw",
       ![t].pend = IF res = Success
                   THEN ExecutedRec(ticks[t].cur.agendaId, ticks[t].cur.triggeredByEvent)
                   ELSE NoRec]
  /\ UNCHANGED <<clock, nextFire, log, agendaMap, busLog, queue, lastBusTimestamp,
                 paused, configFile, nextId, calls, opsLeft, enq, execs, ticksDone>>

\* client.session.command (and session.create for "new") returns or throws.
CommandReturn(t, res) ==
  /\ UNCHANGED <<probe, reply>>
  /\ ticks[t].pc = "command"
  /\ ticks[t].pend = NoRec
  /\ ticks' = [ticks EXCEPT ![t].pc = "done",
       ![t].pend = IF res = Success
                   THEN ExecutedRec(ticks[t].cur.agendaId, ticks[t].cur.triggeredByEvent)
                   ELSE FailedRec(ticks[t].cur.agendaId, ticks[t].cur.triggeredByEvent, res)]
  /\ UNCHANGED <<clock, nextFire, log, agendaMap, busLog, queue, lastBusTimestamp,
                 paused, configFile, nextId, calls, opsLeft, enq, execs, ticksDone>>

\* The appends of executeAction that a notification follows: the executed
\* record of a command, emit or schedule action, the failed record, and the
\* cancelled record of a cancel action's target.
Notifies(tk) ==
  \/ tk.pc \in {"emit_done", "cancel_target"}
  \/ tk.pc = "done" /\ EntryOf(agendaMap, tk.cur.agendaId).action.type # "cancel"

\* executeAction returning the kind that triggered the entry, whatever the
\* action was.
emittedTriggerKind(map, tk) ==
  IF tk.pc = "emit_done" THEN <<EntryOf(map, tk.cur.agendaId).action.kind>>
  ELSE IF tk.cur.triggeredByEvent # Undefined THEN <<tk.cur.triggeredByEvent>>
  ELSE <<>>

\* What executeAction returns when it has finished: the emit case has pushed
\* its kind after its two appends, every other case and the catch block
\* leave the list empty.
emitted(map, tk) ==
  IF tk.pc = "emit_done" THEN <<EntryOf(map, tk.cur.agendaId).action.kind>> ELSE <<>>

\* executeAction resumes after the append it awaited (and the notification
\* that follows it, delivered or not); when the action is finished, drain
\* enqueues the matches of the emitted kinds and goes on with the batch.
Resumed(t, delivered) ==
  LET tk == ticks[t]
      id == tk.cur.agendaId
      by == tk.cur.triggeredByEvent
  IN
  /\ UNCHANGED <<probe, reply>>
  /\ tk.pc \in {"emit_bus", "emit_done", "cancel_target", "schedule_created", "done"}
  /\ tk.pend = NoRec
  /\ Notifies(tk) => toast(delivered)
  /\ UNCHANGED <<clock, nextFire, log, agendaMap, busLog, lastBusTimestamp, paused,
                 configFile, calls, opsLeft>>
  /\ CASE tk.pc = "emit_bus" ->
            /\ ticks' = [ticks EXCEPT ![t].pc = "emit_done",
                                      ![t].pend = ExecutedRec(id, by)]
            /\ UNCHANGED <<queue, nextId, enq, execs, ticksDone>>
       [] tk.pc \in {"cancel_target", "schedule_created"} ->
            /\ ticks' = [ticks EXCEPT ![t].pc = "done",
                                      ![t].pend = ExecutedRec(id, by)]
            /\ UNCHANGED <<queue, nextId, enq, execs, ticksDone>>
       [] tk.pc \in {"emit_done", "done"} ->
            LET emittedKinds == emitted(agendaMap, tk)
                items == IF emittedKinds = <<>> THEN <<>>
                         ELSE matchingCalls(agendaMap, busLog, emittedKinds[1])
            IN
            /\ enq' = BumpAll(enq, items)
            /\ Proceed(t, [tk EXCEPT !.fresh = @ \cup (Added(queue, items) \ Added(<<>>, tk.batch))],
                       drainBatch(agendaMap, tk.batch,
                                  enqueueAll(queue, items), tk.depth))

ExecuteResume(t) == \E delivered \in BOOLEAN : Resumed(t, delivered)

\* ------------------------------------------------------------------------
\* Tool surface
\* ------------------------------------------------------------------------
FreeSlot == CHOOSE i \in DOMAIN calls : calls[i] = NoRec /\ \A j \in 1..(i - 1) : calls[j] # NoRec

CallStart(rec) ==
  /\ opsLeft > 0
  /\ \E i \in DOMAIN calls : calls[i] = NoRec
  /\ calls' = [calls EXCEPT ![FreeSlot] = rec]
  /\ opsLeft' = opsLeft - 1

\* What a tool call was asked and what the validator said to it: "ok", or
\* the rule of the violation the tool returns as BLOCKED [rule].
NoReply == [tool |-> "none", result |-> "ok"]
CreateReply(trigger, action, violation) ==
  [tool |-> "create", trigger |-> trigger, action |-> action, result |-> violation]
EmitReply(kind, sessionId, violation) ==
  [tool |-> "emit", kind |-> kind, sessionId |-> sessionId, result |-> violation]

\* What agenda_emit returns after its append: the entries that match the
\* emitted kind ("n agenda item(s) will fire").
EmitReport(kind, sessionId, matching) ==
  [tool |-> "emit", kind |-> kind, sessionId |-> sessionId, result |-> "ok",
   matching |-> {matching[i].agendaId : i \in 1..Len(matching)}]

\* A tool call that returns without awaiting anything.
CallReturn ==
  /\ opsLeft > 0
  /\ opsLeft' = opsLeft - 1
  /\ UNCHANGED calls

\* agenda_create with a validator that also rejects while paused.
createUnlessPaused(trigger, action) ==
  LET violation == IF pauseViolation(paused) THEN "paused"
                   ELSE validateCreate(agendaMap, action, trigger) IN
  /\ UNCHANGED probe
  /\ reply' = CreateReply(trigger, action, violation)
  /\ IF violation # "ok"
     THEN CallReturn /\ UNCHANGED nextId
     ELSE /\ nextId + 1 \in Ids
          /\ CallStart(CreatedRec(nextId + 1, trigger, action, clock))
          /\ nextId' = nextId + 1
  /\ UNCHANGED <<clock, nextFire, log, agendaMap, busLog, queue, lastBusTimestamp,
                 paused, configFile, ticks, enq, execs, ticksDone>>

\* agenda_create: validate; return the violation, or append the created
\* record.
create(trigger, action) ==
  LET violation == validateCreate(agendaMap, action, trigger) IN
  /\ UNCHANGED probe
  /\ reply' = CreateReply(trigger, action, violation)
  /\ IF violation # "ok"
     THEN CallReturn /\ UNCHANGED nextId
     ELSE /\ nextId + 1 \in Ids
          /\ CallStart(CreatedRec(nextId + 1, trigger, action, clock))
          /\ nextId' = nextId + 1
  /\ UNCHANGED <<clock, nextFire, log, agendaMap, busLog, queue, lastBusTimestamp,
                 paused, configFile, ticks, enq, execs, ticksDone>>

CancelReply(agendaId, result) ==
  [tool |-> "cancel", agendaId |-> agendaId, result |-> result]

\* agenda_cancel without the lookup of the entry.
cancelUnchecked(agendaId) ==
  /\ UNCHANGED probe
  /\ reply' = CancelReply(agendaId, "ok")
  /\ CallStart(CancelledRec(agendaId))
  /\ UNCHANGED <<clock, nextFire, log, agendaMap, busLog, queue, lastBusTimestamp,
                 paused, configFile, nextId, ticks, enq, execs, ticksDone>>

\* agenda_cancel without the status check.
cancelAnyStatus(agendaId) ==
  LET result == IF ~Known(agendaMap, agendaId) THEN "not_found" ELSE "ok" IN
  /\ UNCHANGED probe
  /\ reply' = CancelReply(agendaId, result)
  /\ IF result # "ok"
     THEN CallReturn
     ELSE CallStart(CancelledRec(agendaId))
  /\ UNCHANGED <<clock, nextFire, log, agendaMap, busLog, queue, lastBusTimestamp,
                 paused, configFile, nextId, ticks, enq, execs, ticksDone>>

\* agenda_cancel: "not found" for an unknown id, "is <status>, cannot cancel"
\* for an entry that is not pending; only a pending entry gets a cancelled
\* record.
cancel(agendaId) ==
  LET result == IF ~Known(agendaMap, agendaId) THEN "not_found"
                ELSE IF StatusOf(agendaMap, agendaId) # "pending" THEN "not_pending"
                ELSE "ok" IN
  /\ UNCHANGED probe
  /\ reply' = CancelReply(agendaId, result)
  /\ IF result # "ok"
     THEN CallReturn
     ELSE CallStart(CancelledRec(agendaId))
  /\ UNCHANGED <<clock, nextFire, log, agendaMap, busLog, queue, lastBusTimestamp,
                 paused, configFile, nextId, ticks, enq, execs, ticksDone>>

\* agenda_emit without the early return: the violation is reported and the
\* bus record is appended all the same.
emitDespiteViolation(kind, sessionId) ==
  LET violation == validateBusEmit(busLog, sessionId, clock) IN
  /\ UNCHANGED probe
  /\ reply' = EmitReply(kind, sessionId, violation)
  /\ CallStart(BusRec(kind, sessionId, clock))
  /\ UNCHANGED <<clock, nextFire, log, agendaMap, busLog, queue, lastBusTimestamp,
                 paused, configFile, nextId, ticks, enq, execs, ticksDone>>

\* agenda_emit: rate-limit check; return the violation, or append the bus
\* record.
emit(kind, sessionId) ==
  LET violation == validateBusEmit(busLog, sessionId, clock) IN
  /\ UNCHANGED probe
  /\ reply' = EmitReply(kind, sessionId, violation)
  /\ IF violation # "ok"
     THEN CallReturn
     ELSE CallStart(BusRec(kind, sessionId, clock))
  /\ UNCHANGED <<clock, nextFire, log, agendaMap, busLog, queue, lastBusTimestamp,
                 paused, configFile, nextId, ticks, enq, execs, ticksDone>>

\* agenda_pause / agenda_resume: set the flag, then persist it.
PauseReply(b) == [tool |-> IF b THEN "pause" ELSE "resume", result |-> "ok"]

setPaused(b) ==
  /\ UNCHANGED probe
  /\ reply' = PauseReply(b)
  /\ paused' = b
  /\ CallStart(ConfigRec(b))
  /\ UNCHANGED <<clock, nextFire, log, agendaMap, busLog, queue, lastBusTimestamp,
                 configFile, nextId, ticks, enq, execs, ticksDone>>

pause == setPaused(TRUE)
resume == setPaused(FALSE)

\* JSON.stringify({ paused }) and what startup makes of the file: a missing
\* file, text that does not parse or a paused that is no boolean leave the
\* default.
stringify(b) == IF b THEN "{paused: true}" ELSE "{paused: false}"

restorePauseDefault(file) == FALSE

restorePause(file) ==
  IF file = stringify(TRUE) THEN TRUE
  ELSE IF file = stringify(FALSE) THEN FALSE
  ELSE FALSE

\* The append (or config write) a tool call awaits takes effect, and the
\* tool returns.
CallLand(i) ==
  /\ UNCHANGED probe
  /\ calls[i] # NoRec
  /\ calls' = [calls EXCEPT ![i] = NoRec]
  /\ IF calls[i].type = "config"
     THEN /\ configFile' = stringify(calls[i].paused)
          /\ reply' = PauseReply(calls[i].paused)
          /\ UNCHANGED <<log, agendaMap, busLog>>
     ELSE /\ \E rec \in Stamped(calls[i]) :
               /\ append(rec)
               /\ reply' = IF rec.type = "bus.emitted"
                           THEN EmitReport(rec.kind, rec.sessionId,
                                  matchingEntries(agendaMap', busLog', rec.kind))
                           ELSE reply
          /\ UNCHANGED configFile
  /\ UNCHANGED <<clock, nextFire, queue, lastBusTimestamp, paused, nextId, ticks,
                 opsLeft, enq, execs, ticksDone>>

\* ------------------------------------------------------------------------
\* Environment
\* ------------------------------------------------------------------------
AdvanceClock(polls) ==
  /\ UNCHANGED <<probe, reply>>
  /\ clock + POLL_INTERVAL_MS <= StartClock + polls * POLL_INTERVAL_MS
  /\ clock' = clock + POLL_INTERVAL_MS
  /\ UNCHANGED <<nextFire, log, agendaMap, busLog, queue, lastBusTimestamp, paused,
                 configFile, nextId, ticks, calls, opsLeft, enq, execs, ticksDone>>

\* ------------------------------------------------------------------------
\* Startup and the general specification
\* ------------------------------------------------------------------------
\* The state at time now when AgendaPlugin() returned at StartClock on a
\* project whose log holds the records of oldLog (all written before startup)
\* and no config.json, and nothing has happened since.
Replay(oldLog) ==
  LET RECURSIVE fold(_, _)
      fold(map, l) ==
        IF l = <<>> THEN map
        ELSE LET m == materialize(map, Head(l)) IN
             \* the view is computed record by record, not at the end
             IF Len(m) = 0 THEN fold(<<>>, Tail(l)) ELSE fold(m, Tail(l))
      RECURSIVE foldBus(_, _)
      foldBus(bus, l) == IF l = <<>> THEN bus ELSE foldBus(busEvents(bus, Head(l)), Tail(l))
  IN [map |-> fold(<<>>, oldLog), bus |-> foldBus(<<>>, oldLog)]

\* readAll: the lines of the file parsed, or nothing at all when any line
\* (or the read itself) throws.
readAll(file) ==
  IF \E i \in 1..Len(file) : file[i].type = BadLine.type THEN <<>> ELSE file

Started(oldLog, now, ids, nIds, nTicks, nCalls, nOps) ==
  /\ clock = now
  /\ nextFire = StartClock + POLL_INTERVAL_MS
  /\ log = oldLog
  /\ agendaMap = Replay(readAll(oldLog)).map
  /\ busLog = Replay(readAll(oldLog)).bus
  /\ queue = <<>>
  /\ lastBusTimestamp = StartClock
  /\ configFile = "absent"
  /\ paused = restorePause(configFile)
  /\ nextId = ids
  /\ ticks = [t \in 1..nTicks |-> IdleTick]
  /\ calls = [i \in 1..nCalls |-> NoRec]
  /\ opsLeft = nOps
  /\ enq = [id \in 1..nIds |-> 0]
  /\ execs = [id \in 1..nIds |-> 0]
  /\ ticksDone = 0
  /\ probe = NoProbe
  /\ reply = NoReply

\* The process ends while nothing is awaited and AgendaPlugin() runs again
\* on the same files: the store is replayed, the pause flag restored, the
\* queue and the cursor are new.
Restart ==
  /\ \A t \in Ticks : ticks[t].pc = "idle"
  /\ \A i \in DOMAIN calls : calls[i] = NoRec
  /\ agendaMap' = Replay(readAll(log)).map
  /\ busLog' = Replay(readAll(log)).bus
  /\ paused' = restorePause(configFile)
  /\ queue' = <<>>
  /\ lastBusTimestamp' = clock
  /\ nextFire' = clock + POLL_INTERVAL_MS
  /\ ticks' = [t \in Ticks |-> IdleTick]
  /\ reply' = NoReply
  /\ UNCHANGED <<clock, log, configFile, nextId, calls, opsLeft, enq, execs,
                 ticksDone, probe>>

Init == Started(<<>>, StartClock, 0, MaxIds, NumTicks, NumCalls, MaxOps)

\* What the tool surface is asked to create in the general specification.
Templates ==
  {<<TimeTrigger(clock + POLL_INTERVAL_MS), CommandAction("s1")>>,
   <<EventTrigger(<<"X">>, Undefined, clock + 2 * POLL_INTERVAL_MS), CommandAction("s1")>>}

Next ==
  \/ \E t \in Ticks : tick(t)
  \/ \E t \in Ticks : AppendLand(t)
  \/ \E t \in Ticks : ExpireNext(t)
  \/ \E t \in Ticks : ExecuteResume(t)
  \/ \E t \in Ticks, res \in CommandOutcomes : CommandReturn(t, res)
  \/ \E tpl \in Templates : create(tpl[1], tpl[2])
  \/ \E id \in Ids : cancel(id)
  \/ emit("X", "s1")
  \/ pause
  \/ resume
  \/ \E i \in DOMAIN calls : CallLand(i)
  \/ AdvanceClock(MaxPolls)

Spec == Init /\ [][Next]_vars

\* ------------------------------------------------------------------------
\* The matcher on its own: a log of created, executed and bus records is
\* replayed, and the matcher is called with a kind
\* ------------------------------------------------------------------------
\* Entries in the replayed log.
MaxEntries == 2
\* Bus events in the replayed log.
MaxBus == 2

SeqsUpTo(S, n) == UNION {[1..k -> S] : k \in 0..n}

MatchTriggers ==
  {TimeTrigger(1),
   EventTrigger(<<"A">>, Undefined, NoTime),
   EventTrigger(<<"A", "B">>, "any", NoTime),
   EventTrigger(<<"A", "B">>, "all", NoTime)}

MatchShapes == [trigger : MatchTriggers, done : BOOLEAN]
MatchBus == {BusRec(k, "s1", ts) : k \in {"A", "B"}, ts \in 1..3}

\* Entry i is created at time 2; a done entry has its executed record.
RECURSIVE MatchLog(_, _)
MatchLog(shapes, i) ==
  IF i > Len(shapes) THEN <<>>
  ELSE <<CreatedRec(i, shapes[i].trigger, CommandAction("s1"), 2)>>
       \o (IF shapes[i].done THEN <<ExecutedRec(i, Undefined)>> ELSE <<>>)
       \o MatchLog(shapes, i + 1)

MatchInit ==
  \E shapes \in SeqsUpTo(MatchShapes, MaxEntries), bus \in SeqsUpTo(MatchBus, MaxBus) :
    Started(MatchLog(shapes, 1) \o bus, StartClock, Len(shapes), MaxEntries, 1, 1, 0)

Match(newKind) ==
  /\ probe.kind = Undefined
  /\ probe' = [kind |-> newKind, result |-> matchingEntries(agendaMap, busLog, newKind)]
  /\ UNCHANGED <<clock, nextFire, log, agendaMap, busLog, queue, lastBusTimestamp,
                 paused, configFile, nextId, ticks, calls, opsLeft, enq, execs,
                 ticksDone, reply>>

MatchNext == \E newKind \in {"A", "B", "C"} : Match(newKind)

MatchSpec == MatchInit /\ [][MatchNext]_vars

\* ------------------------------------------------------------------------
\* Scenario: cascade of an emit and a cancel
\* ------------------------------------------------------------------------
\* Entry 1: time trigger, emits X.  Entry 2: on X (ANY), cancels entry 3.
\* Entry 3: waits for an unrelated kind.  All three were created before
\* startup; entry 1 is due at the first firing of the timer.
ScenarioLog ==
  <<CreatedRec(1, TimeTrigger(StartClock + POLL_INTERVAL_MS), EmitAction("X"), 0),
    CreatedRec(2, EventTrigger(<<"X">>, "any", NoTime), CancelAction(3), 0),
    CreatedRec(3, EventTrigger(<<"Z">>, Undefined, NoTime), CommandAction("s1"), 0)>>

\* Tick bodies that may be in progress at once in the scenario.
ScenarioTicks == 1
\* Pause and resume calls made in the scenario.
ScenarioOps == 1

ScenarioInit == Started(ScenarioLog, StartClock, 3, 3, ScenarioTicks, 1, ScenarioOps)

ScenarioNext ==
  \/ \E t \in Ticks : tick(t)
  \/ \E t \in Ticks : AppendLand(t)
  \/ \E t \in Ticks : ExecuteResume(t)
  \/ pause
  \/ resume
  \/ \E i \in DOMAIN calls : CallLand(i)
  \/ AdvanceClock(MaxPolls)

ScenarioSpec == ScenarioInit /\ [][ScenarioNext]_vars

\* ------------------------------------------------------------------------
\* A chain of emit actions longer than maxCascadeDepth
\* ------------------------------------------------------------------------
ChainKinds == <<"K1", "K2", "K3", "K4", "K5", "K6", "K7", "K8", "K9", "K10">>
ChainLen == maxCascadeDepth + 2

\* Entry 1 is due at the first firing of the timer and emits K1; entry i
\* waits for K(i-1) and emits K(i).  The run starts when the timer fires
\* first; that tick returns before the timer fires again, later ticks may
\* take longer than the poll interval.
ChainLog ==
  [i \in 1..ChainLen |->
     CreatedRec(i,
                IF i = 1 THEN TimeTrigger(StartClock + POLL_INTERVAL_MS)
                ELSE EventTrigger(<<ChainKinds[i - 1]>>, Undefined, NoTime),
                EmitAction(ChainKinds[i]), 0)]

ChainInit ==
  Started(ChainLog, StartClock + POLL_INTERVAL_MS, ChainLen, ChainLen, NumTicks, 0, 0)

ChainNext ==
  \/ \E t \in Ticks : tick(t)
  \/ \E t \in Ticks : AppendLand(t)
  \/ \E t \in Ticks : ExecuteResume(t)
  \/ ticksDone >= 1 /\ AdvanceClock(MaxPolls + 1)

ChainSpec == ChainInit /\ [][ChainNext]_vars

\* ------------------------------------------------------------------------
\* Bus events for one waiting entry
\* ------------------------------------------------------------------------
\* The three specifications below start one poll interval after startup, when
\* the timer fires first, with entries created before startup.

\* Entry 1 waits for X (ANY) and runs a command; X is emitted up to three
\* times; ticks may overlap.
DupLog == <<CreatedRec(1, EventTrigger(<<"X">>, Undefined, NoTime), CommandAction("s1"), 0)>>

DupInit == Started(DupLog, StartClock + POLL_INTERVAL_MS, 1, 1, NumTicks, NumCalls, MaxOps)

DupNext ==
  \/ \E t \in Ticks : tick(t)
  \/ \E t \in Ticks : AppendLand(t)
  \/ \E t \in Ticks : ExecuteResume(t)
  \/ \E t \in Ticks, res \in CommandOutcomes : CommandReturn(t, res)
  \/ emit("X", "s1")
  \/ \E i \in DOMAIN calls : CallLand(i)
  \/ AdvanceClock(MaxPolls)

DupSpec == DupInit /\ [][DupNext]_vars

\* Entry 1 waits for A and B (ALL) and runs a command; A and B are emitted;
\* ticks do not overlap.
ConvLog ==
  <<CreatedRec(1, EventTrigger(<<"A", "B">>, "all", NoTime), CommandAction("s1"), 0)>>

ConvInit == Started(ConvLog, StartClock + POLL_INTERVAL_MS, 1, 1, 1, NumCalls, MaxOps)

ConvNext ==
  \/ tick(1)
  \/ AppendLand(1)
  \/ ExecuteResume(1)
  \/ \E res \in CommandOutcomes : CommandReturn(1, res)
  \/ \E kind \in {"A", "B"} : emit(kind, "s1")
  \/ \E i \in DOMAIN calls : CallLand(i)
  \/ AdvanceClock(MaxPolls)

ConvSpec == ConvInit /\ [][ConvNext]_vars

\* Entry 1 waits for A (ANY), entry 2 is due at the first firing of the
\* timer; both run a command.  A and an unrelated kind B are emitted only
\* while the scheduler is paused; ticks do not overlap.
ResumeLog ==
  <<CreatedRec(1, EventTrigger(<<"A">>, Undefined, NoTime), CommandAction("s1"), 0),
    CreatedRec(2, TimeTrigger(StartClock + POLL_INTERVAL_MS), CommandAction("s1"), 0)>>

ResumeInit ==
  Started(ResumeLog, StartClock + POLL_INTERVAL_MS, 2, 2, 1, NumCalls + 1, MaxOps + 1)

ResumeNext ==
  \/ tick(1)
  \/ AppendLand(1)
  \/ ExecuteResume(1)
  \/ \E res \in CommandOutcomes : CommandReturn(1, res)
  \/ \E kind \in {"A", "B"} : paused /\ emit(kind, "s1")
  \/ pause
  \/ resume
  \/ \E i \in DOMAIN calls : CallLand(i)
  \/ AdvanceClock(MaxPolls)

ResumeSpec == ResumeInit /\ [][ResumeNext]_vars

\* ------------------------------------------------------------------------
\* Admission: tool calls against the validator
\* ------------------------------------------------------------------------
\* Tool calls made in the admission specification.
AdmitOps == 2

\* Session s1 emitted maxBusEmitsPerSessionPerHour events shortly before
\* startup; s2 emitted none.
AdmitLog == [i \in 1..maxBusEmitsPerSessionPerHour |-> BusRec("X", "s1", 0)]

AdmitInit == Started(AdmitLog, StartClock, 0, MaxIds, 1, 1, AdmitOps)

AdmitNext ==
  \/ tick(1)
  \/ AppendLand(1)
  \/ ExpireNext(1)
  \/ ExecuteResume(1)
  \/ \E res \in CommandOutcomes : CommandReturn(1, res)
  \/ \E tpl \in Templates : create(tpl[1], tpl[2])
  \/ \E sessionId \in {"s1", "s2"} : emit("X", sessionId)
  \/ pause
  \/ resume
  \/ \E i \in DOMAIN calls : CallLand(i)
  \/ AdvanceClock(MaxPolls)

AdmitSpec == AdmitInit /\ [][AdmitNext]_vars

\* ------------------------------------------------------------------------
\* A project at its pending cap
\* ------------------------------------------------------------------------
\* maxPendingProject entries are pending, each admitted by the validator
\* before startup: entries 1..29 wait for kinds nobody emits (at most
\* maxPendingPerEventKind per kind) and emit Q; the last entry is due at
\* the first firing of the timer and schedules a new entry waiting for K7.
\* The run starts when the timer fires first; ticks do not overlap.
CapLog ==
  [i \in 1..maxPendingProject |->
     IF i < maxPendingProject
     THEN CreatedRec(i, EventTrigger(<<ChainKinds[((i - 1) \div maxPendingPerEventKind) + 1]>>,
                                     Undefined, NoTime),
                     EmitAction("Q"), 0)
     ELSE CreatedRec(i, TimeTrigger(StartClock + POLL_INTERVAL_MS),
                     ScheduleAction(EmitAction("Q"),
                                    EventTrigger(<<"K7">>, Undefined, NoTime)), 0)]

CapInit ==
  Started(CapLog, StartClock + POLL_INTERVAL_MS, maxPendingProject,
          maxPendingProject + MaxIds, 1, NumCalls, MaxOps)

CapNext ==
  \/ tick(1)
  \/ AppendLand(1)
  \/ ExecuteResume(1)
  \/ create(EventTrigger(<<"K7">>, Undefined, NoTime), EmitAction("Q"))
  \/ cancel(1)
  \/ \E i \in DOMAIN calls : CallLand(i)
  \/ AdvanceClock(MaxPolls)

CapSpec == CapInit /\ [][CapNext]_vars

\* ------------------------------------------------------------------------
\* Schedule actions in a wave
\* ------------------------------------------------------------------------
DueAt == StartClock + POLL_INTERVAL_MS
Spacing == minIntervalSeconds * 1000

\* Four entries admitted by the validator before startup, their times
\* minIntervalSeconds apart.  Entry 1 is due at the first firing of the
\* timer and schedules an entry waiting for X; entry 2 (overdue) schedules
\* a time entry one poll interval after entry 4's time; entry 3 (overdue)
\* emits X; entry 4 is due a minute later and runs a command.  Ticks may
\* overlap.
SchedLog ==
  <<CreatedRec(1, TimeTrigger(DueAt),
               ScheduleAction(CommandAction("s1"),
                              EventTrigger(<<"X">>, Undefined, NoTime)), 0),
    CreatedRec(2, TimeTrigger(DueAt - Spacing),
               ScheduleAction(CommandAction("s1"),
                              TimeTrigger(DueAt + Spacing + POLL_INTERVAL_MS)), 0),
    CreatedRec(3, TimeTrigger(DueAt - 2 * Spacing), EmitAction("X"), 0),
    CreatedRec(4, TimeTrigger(DueAt + Spacing), CommandAction("s1"), 0)>>

\* Ids 5 and 6 are for the two entries the schedule actions create.
SchedInit == Started(SchedLog, StartClock, 4, 6, NumTicks, 0, 0)

SchedNext ==
  \/ \E t \in Ticks : tick(t)
  \/ \E t \in Ticks : AppendLand(t)
  \/ \E t \in Ticks : ExecuteResume(t)
  \/ \E t \in Ticks, res \in CommandOutcomes : CommandReturn(t, res)
  \/ AdvanceClock(MaxPolls)

SchedSpec == SchedInit /\ [][SchedNext]_vars

\* Tick bodies that may be in progress at once in the wave specification.
WaveTicks == 1

\* Entry 1 is due at the first firing of the timer and schedules an entry
\* waiting for X; entry 2 (overdue) emits X.  A session may emit X once.
WaveLog ==
  <<CreatedRec(1, TimeTrigger(DueAt),
               ScheduleAction(CommandAction("s1"),
                              EventTrigger(<<"X">>, Undefined, NoTime)), 0),
    CreatedRec(2, TimeTrigger(DueAt - Spacing), EmitAction("X"), 0)>>

\* Id 3 is for the entry the schedule action creates.
WaveInit == Started(WaveLog, StartClock, 2, 3, WaveTicks, 1, 1)

WaveNext ==
  \/ \E t \in Ticks : tick(t)
  \/ \E t \in Ticks : AppendLand(t)
  \/ \E t \in Ticks : ExecuteResume(t)
  \/ \E t \in Ticks, res \in CommandOutcomes : CommandReturn(t, res)
  \/ emit("X", "s1")
  \/ \E i \in DOMAIN calls : CallLand(i)
  \/ AdvanceClock(MaxPolls)

WaveSpec == WaveInit /\ [][WaveNext]_vars

\* ------------------------------------------------------------------------
\* Commands that fail
\* ------------------------------------------------------------------------
\* Tick bodies that may be in progress at once while commands fail.
FailTicks == 1

\* Two command entries created before startup: entry 1 is due at the first
\* firing of the timer, entry 2 is overdue.  Each command returns or
\* throws.  Entry 2 may be cancelled once through the tool surface.
FailLog ==
  <<CreatedRec(1, TimeTrigger(DueAt), CommandAction("s1"), 0),
    CreatedRec(2, TimeTrigger(DueAt - Spacing), CommandAction("s2"), 0)>>

FailInit == Started(FailLog, StartClock, 2, 2, FailTicks, 1, 1)

FailNext ==
  \/ \E t \in Ticks : tick(t)
  \/ \E t \in Ticks : AppendLand(t)
  \/ \E t \in Ticks : ExecuteResume(t)
  \/ \E t \in Ticks, res \in CommandOutcomes : CommandReturn(t, res)
  \/ cancel(2)
  \/ \E i \in DOMAIN calls : CallLand(i)
  \/ AdvanceClock(MaxPolls)

FailSpec == FailInit /\ [][FailNext]_vars

\* What a tick body awaits settles: the append lands, the command returns
\* or throws, and the body is resumed.
FailFairness ==
  \A t \in 1..FailTicks :
    /\ WF_vars(AppendLand(t))
    /\ WF_vars(ExecuteResume(t))
    /\ WF_vars(\E res \in CommandOutcomes : CommandReturn(t, res))

FailLiveSpec == FailSpec /\ FailFairness

\* ------------------------------------------------------------------------
\* Observations used by the properties
\* ------------------------------------------------------------------------
\* ------------------------------------------------------------------------
\* Replay: the process is restarted on a log of any records
\* ------------------------------------------------------------------------
\* Records in the replayed log.
MaxReplay == 3

\* Entry 1 with every terminal record, entry 2 created or not (its executed
\* record is then one for an unknown id), and a bus event.
ReplayRecs ==
  {CreatedRec(1, EventTrigger(<<"A">>, Undefined, NoTime), CommandAction("s1"), 1),
   CreatedRec(2, TimeTrigger(1), CommandAction("s1"), 2),
   CancelledRec(1), ExecutedRec(1, Undefined), ExpiredRec(1),
   ExecutedRec(2, Undefined), BusRec("A", "s1", 2)}

ReplayInit ==
  \E l \in SeqsUpTo(ReplayRecs, MaxReplay) : Started(l, StartClock, 2, 2, 1, 0, 0)

ReplayNext ==
  \/ Restart
  \/ AdvanceClock(MaxPolls)

ReplaySpec == ReplayInit /\ [][ReplayNext]_vars

\* ------------------------------------------------------------------------
\* Bootstrap: the process starts on a log that may hold a malformed line
\* ------------------------------------------------------------------------
\* Entry 1 is due at the first firing of the timer; the file holds its
\* created record and, before it, after it or nowhere, a line that does not
\* parse.
BootEntry ==
  CreatedRec(1, TimeTrigger(StartClock + POLL_INTERVAL_MS), CommandAction("s1"), 0)

BootLogs == {<<BootEntry>>, <<BootEntry, BadLine>>, <<BadLine, BootEntry>>}

BootInit == \E l \in BootLogs : Started(l, StartClock, 1, MaxIds, 1, 1, 1)

BootNext ==
  \/ tick(1)
  \/ AppendLand(1)
  \/ ExecuteResume(1)
  \/ \E res \in CommandOutcomes : CommandReturn(1, res)
  \/ \E tpl \in Templates : create(tpl[1], tpl[2])
  \/ \E i \in DOMAIN calls : CallLand(i)
  \/ AdvanceClock(MaxPolls)

BootSpec == BootInit /\ [][BootNext]_vars

Malformed(file) == \E i \in 1..Len(file) : file[i].type = BadLine.type

\* ------------------------------------------------------------------------
\* Pause state: pause and resume calls, and restarts of the process
\* ------------------------------------------------------------------------
\* Pause and resume calls.
PauseOps == 2

\* Entry 1 is due at the first firing of the timer.
PauseLog ==
  <<CreatedRec(1, TimeTrigger(StartClock + POLL_INTERVAL_MS), CommandAction("s1"), 0)>>

PauseInit == Started(PauseLog, StartClock, 1, 1, 1, NumCalls, PauseOps)

PauseNext ==
  \/ tick(1)
  \/ AppendLand(1)
  \/ ExecuteResume(1)
  \/ \E res \in CommandOutcomes : CommandReturn(1, res)
  \/ pause
  \/ resume
  \/ \E i \in DOMAIN calls : CallLand(i)
  \/ Restart
  \/ AdvanceClock(MaxPolls)

PauseSpec == PauseInit /\ [][PauseNext]_vars

\* The same with two pause or resume calls that may await their write to
\* config.json at once, out of three calls.
PersistInit == Started(PauseLog, StartClock, 1, 1, 1, 2, 3)

PersistSpec == PersistInit /\ [][PauseNext]_vars

\* ------------------------------------------------------------------------
\* Cancel: the tool is called on a pending, a finished and an unknown id
\* ------------------------------------------------------------------------
\* Cancel calls.
CancelOps == 2

\* Entry 1 is pending and due at the first firing of the timer, entry 2 was
\* executed before startup; id 3 was never created.
CancelLog ==
  <<CreatedRec(1, TimeTrigger(StartClock + POLL_INTERVAL_MS), CommandAction("s1"), 0),
    CreatedRec(2, TimeTrigger(0), CommandAction("s1"), 0),
    ExecutedRec(2, Undefined)>>

CancelInit == Started(CancelLog, StartClock, 2, 3, 1, NumCalls, CancelOps)

CancelNext ==
  \/ tick(1)
  \/ AppendLand(1)
  \/ ExecuteResume(1)
  \/ \E res \in CommandOutcomes : CommandReturn(1, res)
  \/ \E id \in Ids : cancel(id)
  \/ \E i \in DOMAIN calls : CallLand(i)
  \/ AdvanceClock(MaxPolls)

CancelSpec == CancelInit /\ [][CancelNext]_vars

\* The records a step puts in flight from the tool surface.
CallsStarted == {i \in DOMAIN calls : calls[i] = NoRec /\ calls'[i] # NoRec}

\* ------------------------------------------------------------------------
\* Cursor: bus events of two kinds, one of them awaited by an entry
\* ------------------------------------------------------------------------
\* Emit calls.
CursorOps == 2

\* Entry 1 waits for A (ANY) and runs a command; A and an unrelated kind B
\* are emitted; ticks do not overlap and the scheduler is never paused.
CursorLog ==
  <<CreatedRec(1, EventTrigger(<<"A">>, "any", NoTime), CommandAction("s1"), 0)>>

CursorInit ==
  Started(CursorLog, StartClock + POLL_INTERVAL_MS, 1, 1, 1, NumCalls, CursorOps)

CursorNext ==
  \/ tick(1)
  \/ AppendLand(1)
  \/ ExecuteResume(1)
  \/ \E res \in CommandOutcomes : CommandReturn(1, res)
  \/ \E kind \in {"A", "B"} : emit(kind, "s1")
  \/ \E i \in DOMAIN calls : CallLand(i)
  \/ AdvanceClock(MaxPolls)

CursorSpec == CursorInit /\ [][CursorNext]_vars

\* ------------------------------------------------------------------------
\* Phases: an entry that becomes due and an entry that expires at the second
\* firing of the timer
\* ------------------------------------------------------------------------
\* Tick bodies that may overlap.
PhaseTicks == 1
\* Emit calls.
PhaseOps == 1

PhaseAt == StartClock + 2 * POLL_INTERVAL_MS

\* Entry 1 is due at PhaseAt and emits X; entry 2 waits for X, runs a
\* command and expires at PhaseAt.  X is also emitted by a tool call.
PhaseLog ==
  <<CreatedRec(1, TimeTrigger(PhaseAt), EmitAction("X"), 0),
    CreatedRec(2, EventTrigger(<<"X">>, "any", PhaseAt), CommandAction("s1"), 0)>>

PhaseInit == Started(PhaseLog, StartClock, 2, 2, PhaseTicks, 1, PhaseOps)

PhaseNext ==
  \/ \E t \in Ticks : tick(t)
  \/ \E t \in Ticks : AppendLand(t)
  \/ \E t \in Ticks : ExpireNext(t)
  \/ \E t \in Ticks : ExecuteResume(t)
  \/ \E t \in Ticks, res \in CommandOutcomes : CommandReturn(t, res)
  \/ emit("X", "s1")
  \/ \E i \in DOMAIN calls : CallLand(i)
  \/ AdvanceClock(MaxPolls)

PhaseSpec == PhaseInit /\ [][PhaseNext]_vars

\* The entries a tick body holds for execution, with the shared queue.
Held(tk, q) ==
  {q[i].agendaId : i \in 1..Len(q)}
    \cup {tk.batch[i].agendaId : i \in 1..Len(tk.batch)}
    \cup (IF tk.cur = NoItem THEN {} ELSE {tk.cur.agendaId})

\* ------------------------------------------------------------------------
\* A wave that is overtaken
\* ------------------------------------------------------------------------
\* Entries 1 and 2 are due at the first timer firing (entry 2 is overdue):
\* entry 1 emits X, entry 2 is a command; entry 3 waits for X.  The timer
\* fires again while the command of entry 2 is awaited.
BreadthLog ==
  <<CreatedRec(1, TimeTrigger(DueAt), EmitAction("X"), 0),
    CreatedRec(2, TimeTrigger(DueAt - Spacing), CommandAction("s1"), 0),
    CreatedRec(3, EventTrigger(<<"X">>, Undefined, NoTime), CommandAction("s1"), 0)>>

BreadthInit == Started(BreadthLog, StartClock + POLL_INTERVAL_MS, 3, 3, 2, 0, 0)

BreadthNext ==
  \/ \E t \in Ticks : tick(t)
  \/ \E t \in Ticks : AppendLand(t)
  \/ \E t \in Ticks : ExecuteResume(t)
  \/ \E t \in Ticks, res \in CommandOutcomes : CommandReturn(t, res)
  \/ AdvanceClock(MaxPolls)

BreadthSpec == BreadthInit /\ [][BreadthNext]_vars

\* ------------------------------------------------------------------------
\* Cancel actions and their targets
\* ------------------------------------------------------------------------
\* All four entries are due at the first timer firing and make up its
\* batch: entry 1 cancels entry 3 (a command later in the batch), entry 2
\* cancels entry 1 (executed by then), entry 4 cancels an id that no record
\* created.  A cancel tool call for entry 3 may come first.
TargetLog ==
  <<CreatedRec(1, TimeTrigger(DueAt), CancelAction(3), 0),
    CreatedRec(2, TimeTrigger(DueAt - Spacing), CancelAction(1), 0),
    CreatedRec(3, TimeTrigger(DueAt - 2 * Spacing), CommandAction("s1"), 0),
    CreatedRec(4, TimeTrigger(DueAt - 3 * Spacing), CancelAction(5), 0)>>

TargetInit == Started(TargetLog, StartClock, 4, 4, 1, 1, 1)

TargetNext ==
  \/ tick(1)
  \/ AppendLand(1)
  \/ ExecuteResume(1)
  \/ cancel(3)
  \/ \E i \in DOMAIN calls : CallLand(i)
  \/ AdvanceClock(MaxPolls)

TargetSpec == TargetInit /\ [][TargetNext]_vars

\* ------------------------------------------------------------------------
\* What a finished action hands to the next wave
\* ------------------------------------------------------------------------
\* Entry 1 emits X at the first timer firing; entries 2 (a command), 3 (a
\* cancel action aimed at entry 4) and 5 (a schedule action) wait for X and
\* make up the second wave; entry 4 waits for Y, which only a tool call may
\* emit, and so does the entry that entry 5 creates.
ReturnLog ==
  <<CreatedRec(1, TimeTrigger(DueAt), EmitAction("X"), 0),
    CreatedRec(2, EventTrigger(<<"X">>, Undefined, NoTime), CommandAction("s1"), 0),
    CreatedRec(3, EventTrigger(<<"X">>, Undefined, NoTime), CancelAction(4), 0),
    CreatedRec(4, EventTrigger(<<"Y">>, Undefined, NoTime), CommandAction("s1"), 0),
    CreatedRec(5, EventTrigger(<<"X">>, Undefined, NoTime),
               ScheduleAction(CommandAction("s1"),
                              EventTrigger(<<"Y">>, Undefined, NoTime)), 0)>>

ReturnInit == Started(ReturnLog, StartClock, 5, 6, 1, 1, 1)

ReturnNext ==
  \/ tick(1)
  \/ AppendLand(1)
  \/ ExecuteResume(1)
  \/ \E res \in CommandOutcomes : CommandReturn(1, res)
  \/ emit("Y", "s1")
  \/ \E i \in DOMAIN calls : CallLand(i)
  \/ AdvanceClock(MaxPolls)

ReturnSpec == ReturnInit /\ [][ReturnNext]_vars

\* ------------------------------------------------------------------------
\* The validator over stores at and below each cap
\* ------------------------------------------------------------------------
\* A store is given by how many pending entries of each sort it holds:
\* commands for session s1 (waiting for K1, K2), entries listing kind X,
\* a time entry at RuleAt, and entries waiting for K3.. that emit; with
\* done, an executed entry of each of the first three sorts comes first.
RuleAt == StartClock + 2 * Spacing

RuleShapes ==
  {s \in [cmd : {0, maxPendingPerSession - 1, maxPendingPerSession},
          kind : {0, maxPendingPerEventKind - 1, maxPendingPerEventKind},
          time : {0, 1},
          fill : {0, maxPendingProject - maxPendingPerSession - maxPendingPerEventKind - 2,
                  maxPendingProject - maxPendingPerSession - maxPendingPerEventKind - 1,
                  maxPendingProject - maxPendingPerSession - maxPendingPerEventKind},
          done : BOOLEAN] : TRUE}

KindFor(i) == ChainKinds[((i - 1) \div maxPendingPerEventKind) + 1]

RuleDone(s) ==
  IF s.done
  THEN <<CreatedRec(1, EventTrigger(<<"K9">>, Undefined, NoTime), CommandAction("s1"), 0),
         ExecutedRec(1, "K9"),
         CreatedRec(2, EventTrigger(<<"X">>, Undefined, NoTime), EmitAction("Q"), 0),
         ExecutedRec(2, "X"),
         CreatedRec(3, TimeTrigger(RuleAt), EmitAction("Q"), 0),
         ExecutedRec(3, Undefined)>>
  ELSE <<>>

RuleLog(s) ==
  LET d == IF s.done THEN 3 ELSE 0 IN
  RuleDone(s)
    \o [i \in 1..s.cmd |->
          CreatedRec(d + i, EventTrigger(<<KindFor(i)>>, Undefined, NoTime),
                     CommandAction("s1"), 0)]
    \o [i \in 1..s.kind |->
          CreatedRec(d + s.cmd + i,
                     EventTrigger(IF i = 1 THEN <<"Y", "X">> ELSE <<"X">>, Undefined, NoTime),
                     EmitAction("Q"), 0)]
    \o [i \in 1..s.time |->
          CreatedRec(d + s.cmd + s.kind + i, TimeTrigger(RuleAt), EmitAction("Q"), 0)]
    \o [i \in 1..s.fill |->
          CreatedRec(d + s.cmd + s.kind + s.time + i,
                     EventTrigger(<<KindFor(maxPendingPerSession + i)>>, Undefined, NoTime),
                     EmitAction("Q"), 0)]

RuleEntries(s) == (IF s.done THEN 3 ELSE 0) + s.cmd + s.kind + s.time + s.fill

RuleInit ==
  \E s \in RuleShapes :
    Started(RuleLog(s), StartClock, RuleEntries(s), RuleEntries(s) + 1, 1, 1, 1)

RuleTriggers ==
  {TimeTrigger(RuleAt + Spacing - 1), TimeTrigger(RuleAt - Spacing + 1),
   TimeTrigger(RuleAt + Spacing), TimeTrigger(RuleAt - Spacing),
   EventTrigger(<<"X">>, Undefined, NoTime),
   EventTrigger(<<"Z", "X">>, "all", NoTime),
   EventTrigger(<<"Z">>, Undefined, NoTime)}

RuleActions == {CommandAction("s1"), CommandAction("s2"), EmitAction("X")}

RuleNext ==
  \/ \E trigger \in RuleTriggers, action \in RuleActions : create(trigger, action)
  \/ \E i \in DOMAIN calls : CallLand(i)

RuleSpec == RuleInit /\ [][RuleNext]_vars

\* ------------------------------------------------------------------------
\* Every writer of terminal records at work
\* ------------------------------------------------------------------------
\* At the first timer firing entry 2 (waiting for X) has run out, entry 1 (a
\* cancel action aimed at an id that no record created) and entry 3 (a
\* command that returns or throws) are due.  One cancel tool call names any
\* id, known or not.
RefLog ==
  <<CreatedRec(1, TimeTrigger(DueAt), CancelAction(5), 0),
    CreatedRec(2, EventTrigger(<<"X">>, Undefined, DueAt), CommandAction("s1"), 0),
    CreatedRec(3, TimeTrigger(DueAt - Spacing), CommandAction("s1"), 0)>>

RefInit == Started(RefLog, StartClock, 3, 4, 1, 1, 1)

RefNext ==
  \/ tick(1)
  \/ AppendLand(1)
  \/ ExpireNext(1)
  \/ ExecuteResume(1)
  \/ \E res \in CommandOutcomes : CommandReturn(1, res)
  \/ \E id \in Ids : cancel(id)
  \/ \E i \in DOMAIN calls : CallLand(i)
  \/ AdvanceClock(MaxPolls)

RefSpec == RefInit /\ [][RefNext]_vars

\* ------------------------------------------------------------------------
\* Cycle: emit-on-event entries whose kinds form a ring longer than the cap
\* ------------------------------------------------------------------------
RingLen == maxCascadeDepth + 1

\* Entry 1 is due at the first firing of the timer and emits K1; entry i
\* waits for K(i-1) and emits K(i); the last entry emits K1 again, the kind
\* entry 2 waits for.  Ticks do not overlap.
CycleLog ==
  [i \in 1..RingLen |->
     CreatedRec(i,
                IF i = 1 THEN TimeTrigger(StartClock + POLL_INTERVAL_MS)
                ELSE EventTrigger(<<ChainKinds[i - 1]>>, Undefined, NoTime),
                EmitAction(IF i = RingLen THEN ChainKinds[1] ELSE ChainKinds[i]), 0)]

CycleInit ==
  Started(CycleLog, StartClock + POLL_INTERVAL_MS, RingLen, RingLen, 1, 0, 0)

CycleNext ==
  \/ tick(1)
  \/ AppendLand(1)
  \/ ExecuteResume(1)
  \/ AdvanceClock(MaxPolls)

CycleSpec == CycleInit /\ [][CycleNext]_vars

\* How far a draining tick body is from its return, at most: the waves the
\* cap leaves it, the rest of its batch, and the awaits left in the action
\* it is executing.
AwaitsLeft(tk) ==
  (IF tk.pc \in {"emit_bus", "cancel_target", "schedule_created", "command"} THEN 2 ELSE 0)
    + (IF tk.pend # NoRec THEN 1 ELSE 0)

Remaining(tk) ==
  ((maxCascadeDepth - tk.depth) * (Cardinality(Ids) + 1) + Len(tk.batch)) * 4
    + AwaitsLeft(tk)

TerminalRecords(id) ==
  {i \in 1..Len(log) : log[i].type \in TerminalTypes /\ log[i].agendaId = id}

ActiveTicks == {t \in Ticks : ticks[t].pc # "idle"}

\* ------------------------------------------------------------------------
\* Properties
\* ------------------------------------------------------------------------
\* C1: the log holds at most one terminal record (executed, cancelled, failed
\* or expired) for every entry id, whatever the interleaving of ticks and
\* tool calls.
AtMostOneTerminalRecord == \A id \in Ids : Cardinality(TerminalRecords(id)) <= 1

\* C2: at any instant at most one tick body is in progress; a timer firing
\* during a running tick starts nothing.
NoOverlappingTicks == Cardinality(ActiveTicks) <= 1

\* C3: an entry id that enqueue() was called for more than once has its
\* action executed at most once.
EnqueuedTwiceExecutedOnce == \A id \in Ids : enq[id] >= 2 => execs[id] <= 1

\* The records a step appends to the log.
Appended == {log'[i] : i \in (Len(log) + 1)..Len(log')}

\* A record of an entry firing or expiring, or of a cascade's bus event.
IsFiring(rec) ==
  \/ rec.type \in {"agenda.executed", "agenda.failed", "agenda.expired"}
  \/ rec.type = "bus.emitted" /\ rec.sessionId = "agenda"

\* A step in which a tick body returns (in the step that started it, when no
\* entry was ready).
TickReturns(t) == ticks'[t].pc = "idle" /\ ticks'[t] # ticks[t]

\* C5: an event entry whose expiresAt had passed when a tick started has
\* status expired when that tick returns, and the tick does not execute it.
ExpiredAtStartEndsExpired ==
  [][\A t \in Ticks :
       /\ TickReturns(t) =>
            \A id \in ticks'[t].expired0 : StatusOf(agendaMap', id) = "expired"
       /\ ticks[t].pc # "idle" =>
            \A id \in ticks[t].expired0 : execs'[id] = execs[id]]_vars

\* C9: while the pause flag stays set, no executed, failed or expired record
\* and no cascade bus record is appended.
NothingFiresWhilePaused ==
  [][(paused /\ paused') => \A rec \in Appended : ~IsFiring(rec)]_vars

\* The entries the matcher is to return for kind k: by the sets of the
\* entries, their kinds and the bus events.
Expected(k) ==
  {e \in SeqToSet(agendaMap) :
     /\ e.status = "pending"
     /\ e.trigger.type = "event"
     /\ k \in SeqToSet(e.trigger.eventKind)
     /\ \/ e.trigger.matchMode \in {"any", Undefined}
        \/ \A kk \in SeqToSet(e.trigger.eventKind) :
             \E b \in SeqToSet(busLog) : b.kind = kk /\ b.timestamp >= e.createdAt}

\* C7: the matcher returns exactly the pending event entries that list
\* newKind and are in ANY mode (the default) or have, for every kind, a bus
\* event stamped at or after their creation; each of them once.
MatcherReturnsExactly ==
  probe.kind # Undefined =>
    /\ SeqToSet(probe.result) = Expected(probe.kind)
    /\ Len(probe.result) = Cardinality(Expected(probe.kind))

\* The matcher returned an ALL entry of two kinds and left another entry out.
MatcherReturnedAllEntry ==
  /\ probe.kind # Undefined
  /\ \E e \in SeqToSet(probe.result) :
       e.trigger.matchMode = "all" /\ Len(e.trigger.eventKind) = 2
  /\ \E e \in SeqToSet(agendaMap) : e \notin SeqToSet(probe.result)

ScenarioOutcome ==
  /\ StatusOf(agendaMap, 1) = "executed"
  /\ StatusOf(agendaMap, 2) = "executed"
  /\ \E i \in 1..Len(log) : log[i] = ExecutedRec(2, "X")
  /\ StatusOf(agendaMap, 3) = "cancelled"

\* C8: in the scenario, once two unpaused ticks have run after entry 1 became
\* due, entry 1 is executed, entry 2 is executed with X as its triggering
\* kind, and entry 3 is cancelled.
ScenarioAfterTwoTicks == ticksDone >= 2 => ScenarioOutcome

\* Two unpaused ticks have run and the scenario has its outcome.
ScenarioRan == ticksDone >= 2 /\ ScenarioOutcome

\* C4: in the chain, a tick executes at most maxCascadeDepth waves; when the
\* tick that ran the head of the chain returns, the entries of the further
\* waves are still pending; and no entry of the chain is executed twice.
CascadeCapThenExactlyOnce ==
  [][/\ \A t \in Ticks : ticks'[t].depth < maxCascadeDepth
     /\ \A t \in Ticks :
          (TickReturns(t) /\ 1 \in ticks'[t].due0) =>
            \A id \in (maxCascadeDepth + 1)..ChainLen : IsPending(agendaMap', id)
     /\ \A id \in Ids : execs'[id] <= 1]_vars

BothEmitted(id) == allSatisfied(EntryOf(agendaMap, id), busLog)

\* C6: the ALL entry on [A,B] is not executed before both A and B have a bus
\* event stamped at or after its creation, is executed at most once, and is
\* no longer pending when a tick returns that started with both in the log.
AllModeFiresOnce ==
  [][/\ execs'[1] >= 1 => BothEmitted(1)'
     /\ execs'[1] <= 1
     /\ \A t \in Ticks :
          (TickReturns(t) /\ 1 \in ticks'[t].matched0) => ~IsPending(agendaMap', 1)]_vars

\* C10: when a tick that started unpaused returns, no entry is still pending
\* that was due at its start, was matched by a bus event of the log at its
\* start, or was in the queue at its start.
NothingLostAfterResume ==
  [][\A t \in Ticks :
       TickReturns(t) =>
         \A id \in ticks'[t].due0 \cup ticks'[t].matched0 \cup ticks'[t].queued0 :
           ~IsPending(agendaMap', id)]_vars

\* A step in which a tool is called.
ToolCalled == opsLeft' < opsLeft

\* The created records a step puts in flight from the tool surface.
CreateStarted ==
  {calls'[i] : i \in {j \in DOMAIN calls : calls[j] = NoRec
                                          /\ calls'[j].type = "agenda.created"}}

\* C11: a create call made while the pause flag is set gets the verdict the
\* validator gives for the entries, the action and the trigger alone; when
\* that is no violation, a created record is appended, and once it is in
\* the log the entry is pending.
CreateAdmittedWhilePaused ==
  [][paused =>
       /\ (ToolCalled /\ reply'.tool = "create") =>
            /\ reply'.result = validateCreate(agendaMap, reply'.action, reply'.trigger)
            /\ reply'.result = "ok" =>
                 CreateStarted =
                   {CreatedRec(nextId', reply'.trigger, reply'.action, clock)}
       /\ \A rec \in Appended :
            rec.type = "agenda.created" => IsPending(agendaMap', rec.agendaId)]_vars

\* The pause flag is set, the last tool call (so one made after the pause)
\* was a create the validator accepted, and its entry is pending.
CreatedWhilePaused ==
  /\ paused
  /\ reply.tool = "create"
  /\ reply.result = "ok"
  /\ IsPending(agendaMap, nextId)

\* C12: the number of pending entries never exceeds maxPendingProject,
\* whether the entries come from the tool surface or from schedule actions.
PendingWithinProjectCap == Len(pending(agendaMap)) <= maxPendingProject

\* C13: any two pending time-triggered entries have executeAt values at
\* least minIntervalSeconds apart.
TimeEntriesSpaced ==
  LET p == pendingByType(agendaMap, "time") IN
  \A i, j \in 1..Len(p) :
    i # j => Abs(p[i].trigger.executeAt - p[j].trigger.executeAt)
               >= minIntervalSeconds * 1000

\* The created records a step puts in flight from schedule actions.
ScheduleStarted ==
  {ticks'[t].pend : t \in {u \in Ticks : /\ ticks'[u].pend.type = "agenda.created"
                                          /\ ticks'[u].pend # ticks[u].pend}}

\* C14: whenever the append of a created record begins, from the tool
\* surface or from a schedule action, the validator has no violation for
\* its trigger and action against the entries at that moment.
CreatedOnlyAfterValidation ==
  [][\A rec \in CreateStarted \cup ScheduleStarted :
       validateCreate(agendaMap, rec.action, rec.trigger) = "ok"]_vars

\* The ids a tick body's schedule actions created in its current wave.
MadeInWave(t) == {m.id : m \in {x \in ticks[t].made : x.depth = ticks[t].depth}}

\* C17: the entry a tick body is executing was not created by a schedule
\* action of the wave the body is in.
NotExecutedInCreatingWave ==
  \A t \in Ticks :
    ticks[t].pc \notin {"idle", "expire"} => ticks[t].cur.agendaId \notin MadeInWave(t)

\* A tick body is executing, in its second wave, the entry a schedule action
\* of its first wave created.
ExecutedInNextWave ==
  \E t \in Ticks :
    /\ ticks[t].pc = "command"
    /\ ticks[t].depth = 1
    /\ [id |-> ticks[t].cur.agendaId, depth |-> 0] \in ticks[t].made

\* C18: an entry created by a schedule action is not in the queue while the
\* wave that created it is running, and the tick body that created it does
\* not execute it.
NotEnqueuedByCreatingTick ==
  \A t \in Ticks :
    /\ \A id \in MadeInWave(t) : ~Queued(queue, id)
    /\ ticks[t].pc \notin {"idle", "expire"} =>
         ticks[t].cur.agendaId \notin {m.id : m \in ticks[t].made}

\* The rules the validator names in a violation.
Rules ==
  {"max_pending_project", "max_pending_session", "min_interval",
   "max_pending_event_kind", "max_bus_emits"}

\* C15: a create or emit call the validator rejects returns the violation's
\* rule, starts no append, and leaves the log, the entries, the bus events,
\* the queue and the id counter as they were.
RejectionChangesNothing ==
  [][(ToolCalled /\ reply'.result # "ok") =>
       /\ reply'.tool \in {"create", "emit"}
       /\ reply'.result \in Rules
       /\ UNCHANGED <<log, agendaMap, busLog, queue, calls, nextId>>]_vars

\* The last tool call was a create rejected for a time within
\* minIntervalSeconds of a pending entry's.
CreateRejected ==
  /\ reply.tool = "create"
  /\ reply.result = "min_interval"
  /\ \A i \in DOMAIN calls : calls[i] = NoRec

\* C16: in the materialized view a status changes only from pending to
\* executed, cancelled, failed or expired; a terminal status stays as it is
\* whatever record is applied afterwards.
TerminalStatusIsFinal ==
  [][\A id \in Ids :
       (Known(agendaMap, id) /\ StatusOf(agendaMap', id) # StatusOf(agendaMap, id)) =>
         /\ StatusOf(agendaMap, id) = "pending"
         /\ StatusOf(agendaMap', id) \in {"executed", "cancelled", "failed", "expired"}]_vars

MalformedLogIsFatal ==
  Malformed(log) =>
    /\ nextFire = StartClock + POLL_INTERVAL_MS
    /\ opsLeft = 1
    /\ \A t \in Ticks : ticks[t] = IdleTick

PauseSurvivesRestart ==
  [][Restart =>
       /\ reply.tool = "pause" => paused'
       /\ reply.tool = "resume" => ~paused'
       /\ configFile = "absent" => ~paused']_vars

\* The process was restarted after a pause and came up paused.
RestartedPaused ==
  /\ paused
  /\ reply = NoReply
  /\ configFile = stringify(TRUE)

\* C25: a cancel call on an unknown id reports not-found, on an entry that
\* is not pending it reports not-pending, and neither appends anything; on a
\* pending entry it appends exactly one cancelled record, and when that
\* record is in the log the entry's status is cancelled.
CancelReportsAndAppends ==
  [][/\ ToolCalled /\ reply'.tool = "cancel" =>
          LET id == reply'.agendaId IN
          /\ reply'.result = "not_found" <=> ~Known(agendaMap, id)
          /\ reply'.result = "not_pending" <=>
                Known(agendaMap, id) /\ ~IsPending(agendaMap, id)
          /\ reply'.result = "ok" <=> IsPending(agendaMap, id)
          /\ UNCHANGED <<log, agendaMap, busLog>>
          /\ reply'.result # "ok" => UNCHANGED calls
          /\ reply'.result = "ok" =>
                /\ Cardinality(CallsStarted) = 1
                /\ \A i \in CallsStarted : calls'[i] = CancelledRec(id)
     /\ \A i \in DOMAIN calls :
          calls[i].type = "agenda.cancelled" /\ calls'[i] = NoRec =>
            /\ log' = Append(log, calls[i])
            /\ StatusOf(agendaMap', calls[i].agendaId) = "cancelled"]_vars

\* Entry 1 was cancelled while pending, and a later call on the unknown id
\* was told not-found.
CancelledThenNotFound ==
  /\ StatusOf(agendaMap, 1) = "cancelled"
  /\ Cardinality(TerminalRecords(1)) = 1
  /\ reply = CancelReply(3, "not_found")

\* C26: an entry that an emit call reported as matching is executed by a
\* later tick: when a tick that started with the matching bus event in the
\* log returns, the reported entry is no longer pending (the scheduler is
\* never paused here, and nothing cancels or expires the entry).
ReportedEntriesFire ==
  [][\A t \in Ticks :
       TickReturns(t) /\ "matching" \in DOMAIN reply =>
         \A id \in reply.matching \cap ticks'[t].matched0 :
           ~IsPending(agendaMap', id)]_vars

TimeEntryNotEarly ==
  \A i \in 1..Len(agendaMap) :
    LET e == agendaMap[i] IN
    e.trigger.type = "time" /\ clock < e.trigger.executeAt =>
      /\ execs[e.agendaId] = 0
      /\ enq[e.agendaId] = 0
      /\ e.status \notin {"executed", "failed"}
      /\ \A t \in Ticks : ticks[t].cur.agendaId # e.agendaId

\* Entry 1 was left alone by a tick before its time and executed by the
\* tick at its time.
ExecutedAtItsTime ==
  /\ clock = PhaseAt
  /\ ticksDone >= 2
  /\ StatusOf(agendaMap, 1) = "executed"

\* C29: every time-triggered entry that was pending and due when an unpaused
\* tick started is no longer pending when that tick returns, and the tick
\* executes it in its first wave (depth 0).
DueEntriesDoneInFirstWave ==
  [][\A t \in Ticks :
       /\ TickReturns(t) =>
            \A id \in ticks'[t].due0 : ~IsPending(agendaMap', id)
       /\ ticks'[t].cur # ticks[t].cur /\ ticks'[t].cur.agendaId \in ticks'[t].due0 =>
            ticks'[t].depth = 0]_vars

\* The tick at entry 1's time found it due and has returned; entry 1 is
\* executed.
DueEntryDone ==
  /\ \E t \in Ticks : ticks[t].pc = "idle" /\ 1 \in ticks[t].due0
  /\ StatusOf(agendaMap, 1) = "executed"
  /\ Len(busLog) >= 1

\* C30: a tick body expires first, then enqueues, then drains: while it is
\* in its expiry loop nothing is enqueued, started or read from the bus; once
\* it has enqueued it does not go back to expiring; and no step of the body
\* enqueues an entry that the body marked expired.
ExpireThenEnqueueThenDrain ==
  [][\A t \in Ticks :
       ticks'[t] # ticks[t] =>
         /\ ticks'[t].pc = "expire" =>
              /\ UNCHANGED <<queue, enq, execs, lastBusTimestamp>>
              /\ ticks'[t].batch = <<>> /\ ticks'[t].cur = NoItem
         /\ ticks[t].pc \notin {"idle", "expire"} =>
              /\ ticks'[t].pc # "expire"
              /\ ticks'[t].pend.type # "agenda.expired"
         /\ \A id \in ticks'[t].expired0 :
              /\ enq'[id] = enq[id]
              /\ id \in Held(ticks'[t], queue') => id \in Held(ticks[t], queue)]_vars

\* A tick expired entry 2 although an X event it had not yet seen was in the
\* log, and has returned: entry 2 is expired and was never enqueued.
ExpiredNotEnqueued ==
  /\ \E t \in Ticks : ticks[t].pc = "idle" /\ 2 \in ticks[t].expired0 \cap ticks[t].matched0
  /\ StatusOf(agendaMap, 2) = "expired"
  /\ enq[2] = 0

\* C31: a drain runs at most maxCascadeDepth waves and then returns, also
\* when the emitted kinds form a cycle: no tick body is ever in a wave beyond
\* the cap, and every step of a draining body (an append landing, the body
\* resuming) either returns from the tick or brings it strictly closer to
\* its return, by a measure that is never negative.
DrainTerminates ==
  [][\A t \in Ticks :
       /\ ticks'[t].depth < maxCascadeDepth
       /\ Remaining(ticks'[t]) >= 0
       /\ ticks[t].pc \notin {"idle", "expire"} /\ ticks'[t] # ticks[t] =>
            \/ ticks'[t].pc = "idle"
            \/ Remaining(ticks'[t]) < Remaining(ticks[t])]_vars

\* The first tick stopped at the cap with the last entry of the ring queued;
\* a later tick ran it, its K1 found no pending listener, and the tick
\* returned.
RingClosed ==
  /\ ActiveTicks = {}
  /\ ticksDone >= 2
  /\ queue = <<>>
  /\ \A id \in 1..RingLen : StatusOf(agendaMap, id) = "executed"

\* C32: drain is breadth-first.  When a tick body begins to execute an entry,
\* the entry comes from the batch of the body's wave (or, when that batch is
\* used up, from the queue, which becomes the batch of the next wave), and no
\* tick body is in the middle of the wave during which it enqueued the entry:
\* the wave that enqueued an entry has gone through its whole batch before
\* the entry is executed.
Begins(t) ==
  /\ ticks'[t].cur # NoItem
  /\ execs'[ticks'[t].cur.agendaId] > execs[ticks'[t].cur.agendaId]
  /\ ticks'[t] # ticks[t]

BreadthFirst ==
  [][\A t \in Ticks : Begins(t) =>
       /\ ticks'[t].depth = ticks[t].depth /\ ticks[t].pc \notin {"idle", "expire"} =>
            \E i \in 1..Len(ticks[t].batch) :
               /\ ticks[t].batch[i] = ticks'[t].cur
               /\ ticks'[t].batch = SubSeq(ticks[t].batch, i + 1, Len(ticks[t].batch))
               /\ \A j \in 1..(i - 1) : ~IsPending(agendaMap, ticks[t].batch[j].agendaId)
       /\ ticks'[t].depth > ticks[t].depth =>
            \A j \in 1..Len(ticks[t].batch) : ~IsPending(agendaMap, ticks[t].batch[j].agendaId)
       /\ \A u \in Ticks : ticks'[t].cur.agendaId \notin ticks'[u].fresh]_vars

\* C33: a cancel action appends a cancelled record for its target only if the
\* target exists and is pending when the action looks at it, and in every
\* case the executed record of the invoking entry follows; the executed
\* record leaves the target as it was, the action appends nothing else, and no
\* failed record is written for an entry whose action is cancel.
IsCancel(item) ==
  /\ item # NoItem
  /\ EntryOf(agendaMap, item.agendaId).action.type = "cancel"

TargetOf(item) == EntryOf(agendaMap, item.agendaId).action.scheduleId

CancelActionEffect ==
  [][\A t \in Ticks :
       LET tk == ticks[t]
           tk2 == ticks'[t]
           done(item) == ExecutedRec(item.agendaId, item.triggeredByEvent)
       IN
       /\ Begins(t) /\ IsCancel(tk2.cur) =>
            tk2.pend = IF IsPending(agendaMap, TargetOf(tk2.cur))
                       THEN CancelledRec(TargetOf(tk2.cur))
                       ELSE done(tk2.cur)
       /\ IsCancel(tk.cur) /\ tk.pend # NoRec /\ tk2.pend = NoRec =>
            /\ log' = Append(log, tk.pend)
            /\ tk.pend \in {CancelledRec(TargetOf(tk.cur)), done(tk.cur)}
            /\ tk.pend = done(tk.cur) /\ TargetOf(tk.cur) # tk.cur.agendaId =>
                 /\ StatusOf(agendaMap', TargetOf(tk.cur)) = StatusOf(agendaMap, TargetOf(tk.cur))
                 /\ Known(agendaMap', TargetOf(tk.cur)) = Known(agendaMap, TargetOf(tk.cur))
       /\ IsCancel(tk.cur) /\ tk.pc = "cancel_target" /\ tk.pend = NoRec /\ tk2 # tk =>
            tk2.pend = done(tk.cur) /\ tk2.cur = tk.cur
       /\ \A i \in 1..Len(log') :
            log'[i].type = "agenda.failed" =>
              EntryOf(agendaMap, log'[i].agendaId).action.type # "cancel"]_vars

\* The three cancel actions have run: entry 3 was cancelled by entry 1's
\* action alone, entries 1, 2 and 4 have their executed records, and the
\* executed entry 1 that entry 2 aimed at is still executed.
CancelActionsDone ==
  /\ ActiveTicks = {}
  /\ StatusOf(agendaMap, 3) = "cancelled"
  /\ \A id \in {1, 2, 4} : StatusOf(agendaMap, id) = "executed"
  /\ opsLeft > 0
  /\ Len(log) = Len(TargetLog) + 4
  /\ ~Known(agendaMap, 5)

\* C34: a wave executes a queued id only if its entry is pending when its
\* turn comes, and every record a draining tick body appends belongs to the
\* item it is executing (the item's own executed or failed record, or what
\* its action produces): an item that is skipped gets no record from the
\* drain.
PendingAtTurn ==
  [][\A t \in Ticks :
       LET tk == ticks[t]
           tk2 == ticks'[t]
       IN
       /\ Begins(t) => IsPending(agendaMap, tk2.cur.agendaId)
       /\ tk.pc # "expire" /\ tk.pend # NoRec /\ tk2.pend = NoRec =>
            /\ tk.cur # NoItem
            /\ execs[tk.cur.agendaId] > 0
            /\ \/ tk.pend.type \in {"bus.emitted", "agenda.created"}
               \/ /\ tk.pend.type \in {"agenda.executed", "agenda.failed"}
                  /\ tk.pend.agendaId = tk.cur.agendaId
               \/ IsCancel(tk.cur) /\ tk.pend = CancelledRec(TargetOf(tk.cur))]_vars

\* Entry 3 was in the batch of a tick that has returned, an earlier action of
\* the batch cancelled it, and it was neither executed nor given a record of
\* its own by the drain.
SkippedInBatch ==
  /\ ActiveTicks = {}
  /\ ticksDone >= 1
  /\ opsLeft > 0
  /\ enq[3] > 0
  /\ execs[3] = 0
  /\ StatusOf(agendaMap, 3) = "cancelled"
  /\ \A i \in 1..Len(log) :
       log[i].type \in {"agenda.executed", "agenda.failed"} => log[i].agendaId # 3

\* C35: only a finished emit action hands kinds to the drain.  When a tick
\* body resumes after the last append of an action, ids come into the queue
\* (or, the wave ending with that step, into the next batch) only if the
\* action was an emit whose bus record and executed record are in the log in
\* that order, and then they are the pending entries its kind matches;
\* command, cancel and schedule actions and failed executions enqueue
\* nothing.
Finishes(t) ==
  /\ ticks[t].pc \in {"emit_done", "done"}
  /\ ticks[t].pend = NoRec
  /\ ticks'[t] # ticks[t]

Enqueued(t) ==
  ({queue'[i].agendaId : i \in 1..Len(queue')}
     \cup (IF ticks'[t].depth > ticks[t].depth THEN Held(ticks'[t], <<>>) ELSE {}))
    \ {queue[i].agendaId : i \in 1..Len(queue)}

OnlyEmitReturnsKinds ==
  [][\A t \in Ticks : Finishes(t) =>
       LET id == ticks[t].cur.agendaId
           by == ticks[t].cur.triggeredByEvent
           a == EntryOf(agendaMap, id).action
           m == matchingEntries(agendaMap, busLog, a.kind)
       IN
       /\ (ticks[t].pc = "emit_done") = (a.type = "emit")
       /\ a.type # "emit" => Enqueued(t) = {}
       /\ a.type = "emit" =>
            /\ Enqueued(t) \subseteq {m[i].agendaId : i \in 1..Len(m)}
            /\ {m[i].agendaId : i \in 1..Len(m)} \subseteq Held(ticks[t], queue) \cup Enqueued(t)
            /\ \E i, j \in 1..Len(log) :
                 /\ i < j
                 /\ log[i].type = "bus.emitted" /\ log[i].kind = a.kind
                 /\ log[i].sessionId = "agenda"
                 /\ log[j] = ExecutedRec(id, by)
       /\ (\E i \in 1..Len(log) : log[i].type = "agenda.failed" /\ log[i].agendaId = id) =>
            Enqueued(t) = {}]_vars

\* The emit of entry 1 has handed X to the drain and the second wave ran:
\* the command failed, the cancel and schedule actions are executed, and the
\* tick returned with an empty queue, entry 4 cancelled and the new entry 6
\* waiting.
SecondWaveEnqueuedNothing ==
  /\ ActiveTicks = {}
  /\ queue = <<>>
  /\ StatusOf(agendaMap, 1) = "executed"
  /\ StatusOf(agendaMap, 2) = "failed"
  /\ StatusOf(agendaMap, 3) = "executed"
  /\ StatusOf(agendaMap, 4) = "cancelled"
  /\ StatusOf(agendaMap, 5) = "executed"
  /\ StatusOf(agendaMap, 6) = "pending"
  /\ \A id \in {2, 3, 5} : enq[id] = 1
  /\ opsLeft > 0

\* C36: a command whose external call failed is recorded as failed and never
\* invoked again.  The throw makes the tick body await the entry's failed
\* record, which then lands in the log; and no tick body begins to execute
\* a command entry whose call has thrown before (its failed record is in
\* the log or awaited by a tick body).
CallFailed(id) ==
  \/ \E i \in 1..Len(log) : log[i].type = "agenda.failed" /\ log[i].agendaId = id
  \/ \E u \in Ticks : ticks[u].pend.type = "agenda.failed" /\ ticks[u].pend.agendaId = id

FailedCommandNotRetried ==
  [][\A t \in Ticks :
       /\ ticks[t].pc = "command" /\ ticks'[t].pc # "command" =>
            \/ ticks'[t].pend = ExecutedRec(ticks[t].cur.agendaId, ticks[t].cur.triggeredByEvent)
            \/ /\ ticks'[t].pend.type = "agenda.failed"
               /\ ticks'[t].pend.agendaId = ticks[t].cur.agendaId
       /\ ticks[t].pend.type = "agenda.failed" /\ ticks'[t].pend = NoRec =>
            log' = Append(log, ticks[t].pend)
       /\ Begins(t) /\ EntryOf(agendaMap, ticks'[t].cur.agendaId).action.type = "command" =>
            ~CallFailed(ticks'[t].cur.agendaId)]_vars

\* C37: validateCreate returns the first violated rule in the order project
\* cap, per-session cap (command actions), minimum interval (time triggers),
\* per-kind cap (event triggers), each counted over the pending entries
\* only, and "ok" when none is violated; the call leaves the log and the
\* materialized view as they were.
PendingIds(map) == {map[i].agendaId : i \in {j \in 1..Len(map) : map[j].status = "pending"}}

FirstViolation(map, action, trigger) ==
  LET P == PendingIds(map)
      e(id) == EntryOf(map, id)
      project == Cardinality(P) >= maxPendingProject
      session ==
        /\ action.type = "command"
        /\ Cardinality({id \in P : /\ e(id).action.type = "command"
                                   /\ e(id).action.sessionId = action.sessionId})
             >= maxPendingPerSession
      interval ==
        /\ trigger.type = "time"
        /\ \E id \in P :
             /\ e(id).trigger.type = "time"
             /\ e(id).trigger.executeAt - trigger.executeAt < minIntervalSeconds * 1000
             /\ trigger.executeAt - e(id).trigger.executeAt < minIntervalSeconds * 1000
      kindCap ==
        /\ trigger.type = "event"
        /\ \E k \in SeqToSet(trigger.eventKind) :
             Cardinality({id \in P : /\ e(id).trigger.type = "event"
                                     /\ k \in SeqToSet(e(id).trigger.eventKind)})
               >= maxPendingPerEventKind
  IN
  CASE project -> "max_pending_project"
    [] ~project /\ session -> "max_pending_session"
    [] ~project /\ ~session /\ interval -> "min_interval"
    [] ~project /\ ~session /\ ~interval /\ kindCap -> "max_pending_event_kind"
    [] OTHER -> "ok"

FirstViolatedRuleReturned ==
  [][reply' # reply /\ reply'.tool = "create" =>
       /\ reply'.result = FirstViolation(agendaMap, reply'.action, reply'.trigger)
       /\ agendaMap' = agendaMap
       /\ busLog' = busLog
       /\ log' = log]_vars

\* A command for s1 waiting for Z and X was rejected for the kind cap: the
\* project and the session are one below their caps, and X is at its cap
\* although the first kind the trigger lists is not.
KindCapAfterOtherRules ==
  /\ reply.tool = "create"
  /\ reply.result = "max_pending_event_kind"
  /\ reply.action = CommandAction("s1")
  /\ reply.trigger.eventKind = <<"Z", "X">>
  /\ Cardinality(PendingIds(agendaMap)) = maxPendingProject - 1
  /\ Len(agendaMap) > maxPendingProject
  /\ Cardinality({id \in PendingIds(agendaMap) :
                    EntryOf(agendaMap, id).action = CommandAction("s1")})
       = maxPendingPerSession - 1

\* C38: an ANY-mode event entry is executed only in response to a bus event
\* that is not older than the entry: when a tick body begins to execute an
\* ANY-mode entry for an event kind, the bus log holds an event of that kind
\* whose timestamp is at or after the entry's createdAt.
FiresOnlyOnLaterEvents ==
  [][\A t \in Ticks :
       LET item == ticks'[t].cur
           e == EntryOf(agendaMap, item.agendaId)
       IN
       (/\ Begins(t)
        /\ e.trigger.type = "event"
        /\ matchMode(e.trigger) = "any"
        /\ item.triggeredByEvent # Undefined)
         => \E i \in 1..Len(busLog) :
               /\ busLog[i].kind = item.triggeredByEvent
               /\ Includes(normalizeKinds(e.trigger), busLog[i].kind)
               /\ busLog[i].timestamp >= e.createdAt]_vars

\* C39: every cancelled, executed, failed or expired record in the log is for
\* an entry id whose created record stands earlier in the log.
TerminalRecordsHaveCreated ==
  \A j \in 1..Len(log) :
    log[j].type \in {"agenda.cancelled", "agenda.executed", "agenda.failed", "agenda.expired"} =>
      \E i \in 1..(j - 1) :
        log[i].type = "agenda.created" /\ log[i].agendaId = log[j].agendaId

\* The tick has returned after an expired, an executed and a failed record
\* (entry 1's cancel action found no target), and the cancel tool call for
\* the unknown id 4 was answered without an append.
AllWritersRan ==
  /\ ActiveTicks = {}
  /\ StatusOf(agendaMap, 1) = "executed"
  /\ StatusOf(agendaMap, 2) = "expired"
  /\ StatusOf(agendaMap, 3) = "failed"
  /\ reply = CancelReply(4, "not_found")
  /\ Len(log) = Len(RefLog) + 3

\* C40: when every pause and resume call has returned, the pause state in
\* config.json (as startup reads it) is the in-memory pause flag.
PersistedPauseIsFlag ==
  (\A i \in DOMAIN calls : calls[i] = NoRec) => restorePause(configFile) = paused

====
